---- MODULE Spec2Model ----
(***************************************************************************)
(* Metering, quota and entitlement core of flash-translation-worker.       *)
(*                                                                         *)
(* The durable tables (usage_logs, user_usage_stats, user_credits,         *)
(* credit_purchases) are the shared state; every database statement is one *)
(* atomic step, and a handler is the sequence of its statements, so that   *)
(* concurrent handlers interleave between statements as they do on D1.     *)
(***************************************************************************)
EXTENDS Integers, Sequences, FiniteSets, TLC

(***************************************************************************)
(* Bounds of the model.                                                    *)
(***************************************************************************)
NProcs == 2
MaxCalls == 3
RaceCalls == 2
MaxDay == 2
DaysPerMonth == 2

Users == {"u1"}
ProcIds == 1..NProcs
Days == 0..MaxDay

(***************************************************************************)
(* Inputs of the usage write API: the durations are those of the           *)
(* repository's own overage tests (300, 400, 200 against a limit of 600).  *)
(***************************************************************************)
Durations == {200, 300, 400}
TokenCounts == {10}
NoTier == "none"

(***************************************************************************)
(* src/config/limits.ts                                                    *)
(***************************************************************************)
TIER_LIMITS ==
  [ FREE |->
      [ text_translation  |-> [daily |-> 40,  monthly |-> 100,  total |-> 100],
        text_classify     |-> [daily |-> 40,  monthly |-> 100,  total |-> 100],
        image_translation |-> [daily |-> 20,  monthly |-> 20,   total |-> 20],
        live_translation  |-> [daily |-> 600, monthly |-> 600,  total |-> 600],
        tts               |-> [daily |-> 200, monthly |-> 1000, total |-> 1000],
        recognition       |-> [daily |-> 600, monthly |-> 600,  total |-> 600] ],
    LITE |->
      [ text_translation  |-> [daily |-> 60,   monthly |-> 300],
        text_classify     |-> [daily |-> 60,   monthly |-> 300],
        image_translation |-> [daily |-> 40,   monthly |-> 40],
        live_translation  |-> [daily |-> 3600, monthly |-> 3600],
        tts               |-> [daily |-> 300,  monthly |-> 1500],
        recognition       |-> [daily |-> 100,  monthly |-> 600] ],
    PRO |->
      [ text_translation  |-> [daily |-> 100,   monthly |-> 500],
        text_classify     |-> [daily |-> 100,   monthly |-> 500],
        image_translation |-> [daily |-> 100,   monthly |-> 300],
        live_translation  |-> [daily |-> 36000, monthly |-> 36000],
        tts               |-> [daily |-> 500,   monthly |-> 3000],
        recognition       |-> [daily |-> 100,   monthly |-> 1000] ],
    UNLIMITED |->
      [ text_translation  |-> [daily |-> 500,    monthly |-> 2000],
        text_classify     |-> [daily |-> 500,    monthly |-> 2000],
        image_translation |-> [daily |-> 150,    monthly |-> 1200],
        live_translation  |-> [daily |-> 108000, monthly |-> 108000],
        tts               |-> [daily |-> 1000,   monthly |-> 6000],
        recognition       |-> [daily |-> 100,    monthly |-> 2000] ],
    TRIAL_CANCELLED |->
      [ text_translation  |-> [daily |-> 40,   monthly |-> 100],
        text_classify     |-> [daily |-> 40,   monthly |-> 100],
        image_translation |-> [daily |-> 20,   monthly |-> 20],
        live_translation  |-> [daily |-> 1800, monthly |-> 1800, total |-> 1800],
        tts               |-> [daily |-> 200,  monthly |-> 1000],
        recognition       |-> [daily |-> 100,  monthly |-> 1000] ] ]

HasTotal(limits) == "total" \in DOMAIN limits

VARIABLES
  today,            \* the UTC calendar day of the wall clock (a day number)
  usageLogs,        \* usage_logs: the append-only audit log
  userUsageStats,   \* user_usage_stats: key -> running totals
  userCredits,      \* user_credits: userId -> balanceSeconds
  creditPurchases,  \* credit_purchases: transaction id -> purchase row
  procs,            \* the logUsage calls in flight
  calls,            \* history: the logUsage calls issued so far, in order
  overlap,          \* history: some call was issued while another was in flight
  seeded,           \* history: the balance each user was seeded with at the start
  clock,            \* the wall clock in milliseconds (Date.now())
  sess,             \* the live sessions: one relay per WebSocket connection
  wire,             \* the frames of each session: sent to the relay, sent on by it
  entitlements,     \* user_entitlements: the rows of the users database
  adm,              \* the request at the admission gate and its response
  gate,             \* requests at the gate side by side: one per worker invocation
  hooks,            \* the webhook deliveries being handled
  delivered         \* history: the subscription events taken in so far, in order

ledgerVars == <<today, usageLogs, userUsageStats, userCredits, creditPurchases>>
histVars == <<calls, overlap, seeded>>
relayVars == <<clock, sess, wire>>
admVars == <<entitlements, adm, gate>>
hookVars == <<hooks, delivered>>
nonLedger == <<relayVars, admVars, hookVars>>
nonRelay == <<admVars, hookVars>>
vars == <<ledgerVars, procs, histVars, nonLedger>>

(***************************************************************************)
(* Helpers.                                                                *)
(***************************************************************************)
Max(a, b) == IF a >= b THEN a ELSE b

RECURSIVE SumOver(_, _)
SumOver(S, f) ==
  IF S = {} THEN 0
  ELSE LET x == CHOOSE y \in S : TRUE IN f[x] + SumOver(S \ {x}, f)

(***************************************************************************)
(* getUtcDateStrings: the day key and the month key of a date.  A day key  *)
(* is the day number, a month key the number of the month the day lies in; *)
(* the period type is part of every aggregate key, so a day key and a      *)
(* month key never collide.                                                *)
(***************************************************************************)
\* A plausible slip: the month key is cut from the date like the day key.
getUtcDateStringsDayAsMonth(date) ==
  [daily |-> date, monthly |-> date]

getUtcDateStrings(date) ==
  [daily |-> date, monthly |-> date \div DaysPerMonth]

TotalKey == "total"

StatKey(userId, endpoint, periodType, periodValue) ==
  [userId |-> userId, endpoint |-> endpoint,
   periodType |-> periodType, periodValue |-> periodValue]

(***************************************************************************)
(* The statements of logUsage.  durationSeconds || null in the audit row,  *)
(* durationSeconds || 0 in the aggregates.                                 *)
(***************************************************************************)
Null == <<>>
OrNull(d) == IF d = 0 THEN Null ELSE <<d>>
Coalesce(v) == IF v = Null THEN 0 ELSE v[1]

\* usage_logs is a table: a set of rows, each under its own random id.
InsertUsageLog(logs, id, userId, endpoint, tokens, costMicros, durationSeconds, createdDay) ==
  logs \cup {[id |-> id, userId |-> userId, endpoint |-> endpoint,
              totalTokens |-> tokens, costMicros |-> costMicros,
              durationSeconds |-> OrNull(durationSeconds),
              createdAt |-> createdDay]}

\* A plausible slip in the conflict clause: the row is overwritten, not incremented.
UpsertStatOverwrite(stats, key, duration, tokens) ==
  IF key \in DOMAIN stats
    THEN [stats EXCEPT ![key] =
            [count |-> 1, durationSeconds |-> duration, totalTokens |-> tokens]]
    ELSE stats @@ (key :> [count |-> 1, durationSeconds |-> duration,
                           totalTokens |-> tokens])

\* A plausible slip in the conflict clause: the duration is set, not added.
UpsertStatSetDuration(stats, key, duration, tokens) ==
  IF key \in DOMAIN stats
    THEN [stats EXCEPT ![key] =
            [count |-> @.count + 1,
             durationSeconds |-> duration,
             totalTokens |-> @.totalTokens + tokens]]
    ELSE stats @@ (key :> [count |-> 1, durationSeconds |-> duration,
                           totalTokens |-> tokens])

\* insert ... onConflictDoUpdate set count = count + 1, duration = duration + d
UpsertStat(stats, key, duration, tokens) ==
  IF key \in DOMAIN stats
    THEN [stats EXCEPT ![key] =
            [count |-> @.count + 1,
             durationSeconds |-> @.durationSeconds + duration,
             totalTokens |-> @.totalTokens + tokens]]
    ELSE stats @@ (key :> [count |-> 1, durationSeconds |-> duration,
                           totalTokens |-> tokens])

\* A plausible slip: the request count is returned for every endpoint.
getUsageStatsCountOnly(stats, userId, endpoint, includeTotal, date) ==
  LET keys == getUtcDateStrings(date)
      val(k) == IF k \in DOMAIN stats THEN stats[k].count ELSE 0
  IN [daily   |-> val(StatKey(userId, endpoint, "daily", keys.daily)),
      monthly |-> val(StatKey(userId, endpoint, "monthly", keys.monthly)),
      total   |-> val(StatKey(userId, endpoint, "total", TotalKey))]

\* A plausible slip: the daily row is kept under one key for all days.
getUsageStatsOneDayKey(stats, userId, endpoint, includeTotal, date) ==
  LET keys == getUtcDateStrings(date)
      isLive == endpoint = "live_translation"
      getValue(row) == IF isLive THEN row.durationSeconds ELSE row.count
      val(k) == IF k \in DOMAIN stats THEN getValue(stats[k]) ELSE 0
  IN [daily   |-> val(StatKey(userId, endpoint, "daily", 0)),
      monthly |-> val(StatKey(userId, endpoint, "monthly", keys.monthly)),
      total   |-> val(StatKey(userId, endpoint, "total", TotalKey))]

\* The rows of (userId, endpoint) are read and the three of the current day
\* key, month key and "total" picked out; includeTotal is accepted and the
\* total row is read either way.
getUsageStats(stats, userId, endpoint, includeTotal, date) ==
  LET keys == getUtcDateStrings(date)
      isLive == endpoint = "live_translation"
      getValue(row) == IF isLive THEN row.durationSeconds ELSE row.count
      val(k) == IF k \in DOMAIN stats THEN getValue(stats[k]) ELSE 0
  IN [daily   |-> val(StatKey(userId, endpoint, "daily", keys.daily)),
      monthly |-> val(StatKey(userId, endpoint, "monthly", keys.monthly)),
      total   |-> val(StatKey(userId, endpoint, "total", TotalKey))]

(***************************************************************************)
(* Credit ledger: the overage settlement of a live event.                  *)
(***************************************************************************)
Balance(credits, userId) ==
  IF userId \in DOMAIN credits THEN credits[userId] ELSE 0

\* A plausible slip: the balance is floored at zero.
AddBalanceFloored(credits, userId, delta) ==
  IF userId \in DOMAIN credits
    THEN [credits EXCEPT ![userId] = Max(0, @ + delta)]
    ELSE credits @@ (userId :> Max(0, delta))

\* balance = balance + delta as one additive upsert; delta may be negative
\* and the result is not floored at zero.
AddBalance(credits, userId, delta) ==
  IF userId \in DOMAIN credits
    THEN [credits EXCEPT ![userId] = @ + delta]
    ELSE credits @@ (userId :> delta)

\* The part of durationSeconds that lies above the limit of one period,
\* from the usage read after the event was added.
overflow(postUsage, durationSeconds, limit) ==
  LET preUsage == postUsage - durationSeconds
  IN IF postUsage <= limit THEN 0
     ELSE IF preUsage >= limit THEN durationSeconds
     ELSE postUsage - limit

deductible(usage, durationSeconds, limits) ==
  Max(overflow(usage.daily, durationSeconds, limits.daily),
      overflow(usage.monthly, durationSeconds, limits.monthly))

(***************************************************************************)
(* logUsage as a process: the audit insert and the three upserts are       *)
(* issued together (Promise.all) and complete in any order; when all four  *)
(* have completed and a tier was passed, the overage is settled.           *)
(***************************************************************************)
Stmts == {"log", "daily", "monthly", "total"}

IdleProc ==
  [pc |-> "idle", pending |-> {}, userId |-> "", endpoint |-> "",
   durationSeconds |-> 0, totalTokens |-> 0, costMicros |-> 0, tier |-> NoTier,
   daily |-> 0, monthly |-> 0, amount |-> 0, call |-> 0]

InFlight(pr) == pr.pc \in {"writing", "settle", "deduct"}
Quiescent == \A p \in ProcIds : ~InFlight(procs[p])

Settles(pr) ==
  /\ pr.tier # NoTier
  /\ pr.endpoint = "live_translation"
  /\ pr.durationSeconds > 0

\* the call's state once statement s has completed
Completed(pr, s) ==
  LET left == pr.pending \ {s}
  IN [pr EXCEPT !.pending = left,
                !.pc = IF left # {} THEN "writing"
                       ELSE IF Settles(pr) THEN "settle" ELSE "done"]

\* origin names the caller in the history: "direct" or the live session.
logUsage(p, userId, endpoint, tokens, costMicros, durationSeconds, tier, origin) ==
  /\ ~InFlight(procs[p])
  /\ LET keys == getUtcDateStrings(today)
     IN /\ procs' = [procs EXCEPT ![p] =
                       [pc |-> "writing", pending |-> Stmts, userId |-> userId,
                        endpoint |-> endpoint, durationSeconds |-> durationSeconds,
                        totalTokens |-> tokens, costMicros |-> costMicros,
                        tier |-> tier,
                        daily |-> keys.daily, monthly |-> keys.monthly,
                        amount |-> 0, call |-> Len(calls) + 1]]
        /\ calls' = Append(calls,
                       [userId |-> userId, endpoint |-> endpoint,
                        durationSeconds |-> durationSeconds, tier |-> tier,
                        day |-> today, origin |-> origin])
  /\ overlap' = (overlap \/ \E q \in ProcIds : InFlight(procs[q]))

LogInsert(p) ==
  LET pr == procs[p] IN
  /\ pr.pc = "writing" /\ "log" \in pr.pending
  /\ usageLogs' = InsertUsageLog(usageLogs, pr.call, pr.userId, pr.endpoint, pr.totalTokens,
                                 pr.costMicros, pr.durationSeconds, pr.daily)
  /\ procs' = [procs EXCEPT ![p] = Completed(pr, "log")]
  /\ UNCHANGED <<today, userUsageStats, userCredits, creditPurchases, histVars, nonLedger>>

PeriodValue(pr, periodType) ==
  CASE periodType = "daily" -> pr.daily
    [] periodType = "monthly" -> pr.monthly
    [] periodType = "total" -> TotalKey

StatUpsert(p, periodType) ==
  LET pr == procs[p] IN
  /\ pr.pc = "writing" /\ periodType \in pr.pending
  /\ userUsageStats' =
       UpsertStat(userUsageStats,
                  StatKey(pr.userId, pr.endpoint, periodType, PeriodValue(pr, periodType)),
                  pr.durationSeconds, pr.totalTokens)
  /\ procs' = [procs EXCEPT ![p] = Completed(pr, periodType)]
  /\ UNCHANGED <<today, usageLogs, userCredits, creditPurchases, histVars, nonLedger>>

\* settleOverage, first statement: read the usage as it now stands.
SettleRead(p) ==
  LET pr == procs[p]
      usage == getUsageStats(userUsageStats, pr.userId, pr.endpoint, FALSE, today)
      amt == deductible(usage, pr.durationSeconds, TIER_LIMITS[pr.tier][pr.endpoint])
  IN /\ pr.pc = "settle"
     /\ procs' = [procs EXCEPT ![p] =
                    [pr EXCEPT !.amount = amt,
                               !.pc = IF amt > 0 THEN "deduct" ELSE "done"]]
     /\ UNCHANGED <<ledgerVars, histVars, nonLedger>>

\* settleOverage, second statement: decrement the balance.
SettleDeduct(p) ==
  LET pr == procs[p] IN
  /\ pr.pc = "deduct"
  /\ userCredits' = AddBalance(userCredits, pr.userId, 0 - pr.amount)
  /\ procs' = [procs EXCEPT ![p] = [pr EXCEPT !.pc = "done"]]
  /\ UNCHANGED <<today, usageLogs, userUsageStats, creditPurchases, histVars, nonLedger>>

\* The wall clock passes midnight (UTC).  Database statements take
\* milliseconds: no call is in flight across a day change here.
NextDay ==
  /\ today < MaxDay
  /\ Quiescent
  /\ today' = today + 1
  /\ UNCHANGED <<usageLogs, userUsageStats, userCredits, creditPurchases,
                 procs, histVars, nonLedger>>

(***************************************************************************)
(* The ledger on its own: logUsage called directly, as the repository's    *)
(* credit tests call it, by up to NProcs concurrent callers.               *)
(***************************************************************************)
NoSession == [state |-> "none"]

\* no frame on either socket yet: fromCaller and fromUpstream are the frames
\* that reached the relay (history), toCaller the frames it sent to the
\* caller; the frames it sent upstream are sess[s].toUpstream
NoWire ==
  [s \in ProcIds |-> [fromCaller |-> <<>>, fromUpstream |-> <<>>, toCaller |-> <<>>]]
NoRequest == [phase |-> "start"]
NoGate == [raced |-> FALSE, req |-> [p \in ProcIds |-> [phase |-> "idle", n |-> 0]]]

\* The purchases the store reports: transaction id -> product id.
Purchases == [t1 |-> "packages_499", t2 |-> "packages_1999", t3 |-> "gift_card"]
Txns == DOMAIN Purchases

NoDelivery ==
  [pc |-> "idle", txn |-> "", userId |-> "", amountSeconds |-> 0, status |-> 0,
   outcome |-> ""]
\* no webhook request kept yet
NoWebhook == [auth |-> "", kind |-> "none"]
NoDeliveries ==
  [proc |-> [h \in ProcIds |-> NoDelivery], sent |-> [t \in Txns |-> 0],
   overlapped |-> FALSE, events |-> 0, request |-> NoWebhook]

InitialBalance == 1000
LowBalance == 10

EmptyFcn == [x \in {} |-> 0]

LedgerInit ==
  /\ today = 0
  /\ usageLogs = {}
  /\ userUsageStats = EmptyFcn
  /\ userCredits \in {EmptyFcn} \cup {[u \in Users |-> b] : b \in {InitialBalance, LowBalance}}
  /\ seeded = [u \in Users |-> Balance(userCredits, u)]
  /\ creditPurchases = EmptyFcn
  /\ procs = [p \in ProcIds |-> IdleProc]
  /\ calls = <<>>
  /\ overlap = FALSE
  /\ clock = 0
  /\ sess = [s \in ProcIds |-> NoSession]
  /\ wire = NoWire
  /\ entitlements = {}
  /\ adm = NoRequest
  /\ gate = NoGate
  /\ hooks = NoDeliveries
  /\ delivered = <<>>

CallLive(p) ==
  \E u \in Users, d \in Durations, t \in TokenCounts :
    /\ logUsage(p, u, "live_translation", t, 0, d, "FREE", "direct")
    /\ UNCHANGED <<ledgerVars, seeded, nonLedger>>

CallText(p) ==
  \E u \in Users, t \in TokenCounts :
    /\ logUsage(p, u, "text_translation", t, 0, 0, NoTier, "direct")
    /\ UNCHANGED <<ledgerVars, seeded, nonLedger>>

\* the statements of logUsage
LedgerWrite(p) ==
  \/ LogInsert(p)
  \/ \E periodType \in {"daily", "monthly", "total"} : StatUpsert(p, periodType)

LedgerStep(p) ==
  \/ LedgerWrite(p)
  \/ SettleRead(p)
  \/ SettleDeduct(p)

\* One caller, one call after the other.
LedgerNext ==
  \/ Len(calls) < MaxCalls /\ CallLive(1)
  \/ Len(calls) < MaxCalls /\ CallText(1)
  \/ LedgerStep(1)
  \/ NextDay

SpecLedger == LedgerInit /\ [][LedgerNext]_vars

\* Up to NProcs callers at once, within one day; a new call takes the
\* first slot that is free.
FirstFree(p) == ~InFlight(procs[p]) /\ \A q \in ProcIds : q < p => InFlight(procs[q])

RaceNext ==
  \/ \E p \in ProcIds : Len(calls) < RaceCalls /\ FirstFree(p) /\ CallLive(p)
  \/ \E p \in ProcIds : Len(calls) < RaceCalls /\ FirstFree(p) /\ CallText(p)
  \/ \E p \in ProcIds : LedgerStep(p)

RaceInit == LedgerInit /\ \A u \in Users : seeded[u] # LowBalance

SpecRace == RaceInit /\ [][RaceNext]_vars

(***************************************************************************)
(* What the claims speak of.                                               *)
(***************************************************************************)
MonthOf(day) == day \div DaysPerMonth

MeteredEndpoints == {"live_translation", "text_translation"}

\* the audit rows an aggregate key stands for
LogsOf(key) ==
  {r \in usageLogs :
     /\ r.userId = key.userId
     /\ r.endpoint = key.endpoint
     /\ CASE key.periodType = "daily" -> r.createdAt = key.periodValue
          [] key.periodType = "monthly" -> MonthOf(r.createdAt) = key.periodValue
          [] key.periodType = "total" -> TRUE}

LoggedSeconds(rows) ==
  SumOver(rows, [r \in rows |-> Coalesce(r.durationSeconds)])

AllStatKeys ==
  {StatKey(u, e, "daily", d) : u \in Users, e \in MeteredEndpoints, d \in Days}
  \cup {StatKey(u, e, "monthly", MonthOf(d)) :
          u \in Users, e \in MeteredEndpoints, d \in Days}
  \cup {StatKey(u, e, "total", TotalKey) : u \in Users, e \in MeteredEndpoints}

RowCount(key) ==
  IF key \in DOMAIN userUsageStats THEN userUsageStats[key].count ELSE 0
RowSeconds(key) ==
  IF key \in DOMAIN userUsageStats THEN userUsageStats[key].durationSeconds ELSE 0

\* C2: once every recordUsage call issued so far has returned, each
\* aggregate row's count is the number of audit rows of its key and its
\* durationSeconds is the sum of their durations; so the daily figure of
\* getUsageStats is the number of today's events, or for live_translation
\* the sum of their durations.
C2_AggregatesMatchAuditLog ==
  Quiescent =>
    /\ \A key \in AllStatKeys :
         /\ RowCount(key) = Cardinality(LogsOf(key))
         /\ RowSeconds(key) = LoggedSeconds(LogsOf(key))
    /\ DOMAIN userUsageStats \subseteq AllStatKeys
    /\ \A u \in Users :
         LET dayKey(e) == StatKey(u, e, "daily", today) IN
         /\ getUsageStats(userUsageStats, u, "text_translation", FALSE, today).daily
              = Cardinality(LogsOf(dayKey("text_translation")))
         /\ getUsageStats(userUsageStats, u, "live_translation", FALSE, today).daily
              = LoggedSeconds(LogsOf(dayKey("live_translation")))

\* C2's case: three calls have returned, two live events of one day (300 s
\* and 400 s) among them, and the daily live figure reads 700.
C2_Witness ==
  /\ Quiescent
  /\ Len(calls) = 3
  /\ \E u \in Users :
       /\ Cardinality(LogsOf(StatKey(u, "live_translation", "daily", today))) = 2
       /\ Cardinality(LogsOf(StatKey(u, "text_translation", "daily", today))) = 1
       /\ getUsageStats(userUsageStats, u, "live_translation", FALSE, today).daily = 700

\* the calls whose upsert of the period has been executed
Applied(key) ==
  {i \in 1..Len(calls) :
     /\ calls[i].userId = key.userId
     /\ calls[i].endpoint = key.endpoint
     /\ CASE key.periodType = "daily" -> calls[i].day = key.periodValue
          [] key.periodType = "monthly" -> MonthOf(calls[i].day) = key.periodValue
          [] key.periodType = "total" -> TRUE
     /\ \A p \in ProcIds :
          (procs[p].call = i /\ procs[p].pc = "writing")
            => key.periodType \notin procs[p].pending}

\* C3: in every interleaving of concurrent recordUsage calls no increment
\* is lost: at every moment each aggregate row counts exactly the calls
\* whose upsert of that row has been executed, and holds the sum of their
\* durations; so when all calls have returned the count is the number of
\* calls and the duration the sum of theirs.
C3_NoLostIncrement ==
  \A key \in AllStatKeys :
    /\ RowCount(key) = Cardinality(Applied(key))
    /\ RowSeconds(key) =
         SumOver(Applied(key), [i \in Applied(key) |-> calls[i].durationSeconds])

\* C3's case: two calls for one key were in flight together, both have
\* returned, and the row counts both.
C3_Witness ==
  /\ overlap
  /\ Quiescent
  /\ \E u \in Users :
       /\ RowCount(StatKey(u, "live_translation", "daily", today)) = 2
       /\ RowSeconds(StatKey(u, "live_translation", "daily", today)) = 700

(***************************************************************************)
(* The overage of a live event as the claims state it: from the usage of   *)
(* the period before the event, the event's duration and the limit.        *)
(***************************************************************************)
IsLiveSettled(c) ==
  c.endpoint = "live_translation" /\ c.tier # NoTier /\ c.durationSeconds > 0

\* seconds of live usage of call i's user recorded before call i in the
\* same day ("daily") or the same month ("monthly")
PriorSeconds(i, periodType) ==
  LET earlier == {j \in 1..(i - 1) :
                    /\ calls[j].userId = calls[i].userId
                    /\ calls[j].endpoint = "live_translation"
                    /\ IF periodType = "daily"
                         THEN calls[j].day = calls[i].day
                         ELSE MonthOf(calls[j].day) = MonthOf(calls[i].day)}
  IN SumOver(earlier, [j \in earlier |-> calls[j].durationSeconds])

ExpectedOverflow(prior, d, limit) ==
  IF prior + d <= limit THEN 0
  ELSE IF prior >= limit THEN d
  ELSE prior + d - limit

DailyOverflow(i) ==
  ExpectedOverflow(PriorSeconds(i, "daily"), calls[i].durationSeconds,
                   TIER_LIMITS[calls[i].tier]["live_translation"].daily)
MonthlyOverflow(i) ==
  ExpectedOverflow(PriorSeconds(i, "monthly"), calls[i].durationSeconds,
                   TIER_LIMITS[calls[i].tier]["live_translation"].monthly)

SettledCalls(u) ==
  {i \in 1..Len(calls) : calls[i].userId = u /\ IsLiveSettled(calls[i])}

OneDay == \A i \in 1..Len(calls) : calls[i].day = today

\* C9: with the events of one day settled one after the other, the balance
\* has dropped by exactly the overflow of each event: 0 while the usage
\* after it is within the limit, the whole duration once the usage before
\* it had reached the limit, and the part above the limit when the event
\* crossed it.
C9_DeductsOverflow ==
  (Quiescent /\ OneDay) =>
    \A u \in Users :
      Balance(userCredits, u) =
        seeded[u] - SumOver(SettledCalls(u),
                            [i \in SettledCalls(u) |-> DailyOverflow(i)])

\* C9's case: prior usage 300, then a 400 s event (deducts 100), then with
\* usage 700 a 200 s event (deducts 200); the first event stayed within
\* quota and deducted nothing.
C9_Witness ==
  /\ Quiescent /\ OneDay
  /\ Len(calls) = 3
  /\ \A i \in 1..3 : IsLiveSettled(calls[i])
  /\ <<calls[1].durationSeconds, calls[2].durationSeconds, calls[3].durationSeconds>>
       = <<300, 400, 200>>
  /\ <<DailyOverflow(1), DailyOverflow(2), DailyOverflow(3)>> = <<0, 100, 200>>
  /\ \E u \in Users : seeded[u] = InitialBalance /\ userCredits[u] = InitialBalance - 300

\* C10: each settled live event has cost the larger of its daily and its
\* monthly overflow, never their sum, and an event over the monthly limit
\* alone has cost its monthly overflow.
C10_DeductsLargerOverflow ==
  Quiescent =>
    \A u \in Users :
      Balance(userCredits, u) =
        seeded[u] - SumOver(SettledCalls(u),
                            [i \in SettledCalls(u) |->
                               Max(DailyOverflow(i), MonthlyOverflow(i))])

\* C10's case: one event was over the monthly limit only, another over both
\* limits by different amounts, and both have been settled.
C10_Witness ==
  /\ Quiescent
  /\ \E u \in Users :
       /\ \E i \in SettledCalls(u) : DailyOverflow(i) = 0 /\ MonthlyOverflow(i) > 0
       /\ \E i \in SettledCalls(u) :
            DailyOverflow(i) > 0 /\ MonthlyOverflow(i) > DailyOverflow(i)

(***************************************************************************)
(* Cost of a live session (utils/cost.ts, config/pricing.ts).              *)
(*                                                                         *)
(* A usage snapshot is the usageMetadata object of an upstream frame.  An  *)
(* absent details array is has...Details = FALSE (an empty array is        *)
(* present: it is truthy in the code's test).                              *)
(***************************************************************************)
Detail(modality, tokenCount) == [modality |-> modality, tokenCount |-> tokenCount]

Snapshot(prompt, hasP, pDetails, response, hasR, rDetails, thoughts) ==
  [promptTokenCount |-> prompt, hasPromptDetails |-> hasP,
   promptTokensDetails |-> pDetails,
   responseTokenCount |-> response, hasResponseDetails |-> hasR,
   responseTokensDetails |-> rDetails, thoughtsTokenCount |-> thoughts]

\* the relay's initial usageMetadata: every count zero
ZeroSnapshot ==
  Snapshot(0, TRUE, <<Detail("AUDIO", 0), Detail("TEXT", 0)>>,
           0, TRUE, <<Detail("TEXT", 0), Detail("AUDIO", 0)>>, 0)

UsageSnapshots ==
  { ZeroSnapshot,
    Snapshot(3, TRUE, <<Detail("AUDIO", 2), Detail("TEXT", 1)>>,
             5, TRUE, <<Detail("TEXT", 1), Detail("AUDIO", 4)>>, 1),
    Snapshot(4, FALSE, <<>>, 2, FALSE, <<>>, 0) }

RECURSIVE SumDetails(_, _)
SumDetails(details, modality) ==
  IF details = <<>> THEN 0
  ELSE (IF Head(details).modality = modality THEN Head(details).tokenCount ELSE 0)
       + SumDetails(Tail(details), modality)

ZeroBreakdown ==
  [input  |-> [total |-> 0, text |-> 0, image |-> 0, audio |-> 0, prompt |-> 0],
   output |-> [total |-> 0, image |-> 0, text |-> 0, audio |-> 0, thought |-> 0]]

\* one turn of aggregateUsage's loop
AddSnapshot(acc, evt) ==
  LET inText == IF evt.hasPromptDetails
                  THEN SumDetails(evt.promptTokensDetails, "TEXT")
                  ELSE evt.promptTokenCount
      inAudio == IF evt.hasPromptDetails
                   THEN SumDetails(evt.promptTokensDetails, "AUDIO") ELSE 0
      inImage == IF evt.hasPromptDetails
                   THEN SumDetails(evt.promptTokensDetails, "IMAGE") ELSE 0
      outText == IF evt.hasResponseDetails
                   THEN SumDetails(evt.responseTokensDetails, "TEXT")
                   ELSE evt.responseTokenCount
      outAudio == IF evt.hasResponseDetails
                    THEN SumDetails(evt.responseTokensDetails, "AUDIO") ELSE 0
      outImage == IF evt.hasResponseDetails
                    THEN SumDetails(evt.responseTokensDetails, "IMAGE") ELSE 0
      in == [text   |-> acc.input.text + inText,
             audio  |-> acc.input.audio + inAudio,
             image  |-> acc.input.image + inImage,
             prompt |-> acc.input.prompt + evt.promptTokenCount,
             total  |-> acc.input.prompt + evt.promptTokenCount]
      out == [text    |-> acc.output.text + outText,
              audio   |-> acc.output.audio + outAudio,
              image   |-> acc.output.image + outImage,
              thought |-> acc.output.thought + evt.thoughtsTokenCount,
              total   |-> 0]
  IN [input  |-> in,
      output |-> [out EXCEPT !.total = out.text + out.audio + out.image + out.thought]]

RECURSIVE aggregateFrom(_, _)
aggregateFrom(acc, events) ==
  IF events = <<>> THEN acc
  ELSE aggregateFrom(AddSnapshot(acc, Head(events)), Tail(events))

\* A plausible slip: the last snapshot is taken for the session's total.
aggregateLastOnly(events) ==
  IF events = <<>> THEN ZeroBreakdown
  ELSE AddSnapshot(ZeroBreakdown, events[Len(events)])

aggregateUsage(events) == aggregateFrom(ZeroBreakdown, events)

\* PRICING_PER_1M_LIVE of the live model, in half units: text_input 0.5,
\* audio_input 3, text_output 2, audio_output 12.
PRICING_PER_1M_LIVE_x2 ==
  [text_input |-> 1, audio_input |-> 6, text_output |-> 4, audio_output |-> 24]

\* Math.ceil(inputCost + outputCost)
calculateCostFromBreakdown(breakdown) ==
  LET pricing == PRICING_PER_1M_LIVE_x2
      inputCost2 == (breakdown.input.text + breakdown.input.prompt) * pricing.text_input
                    + breakdown.input.audio * pricing.audio_input
      outputCost2 == (breakdown.output.text + breakdown.output.thought) * pricing.text_output
                     + breakdown.output.audio * pricing.audio_output
  IN (inputCost2 + outputCost2 + 1) \div 2

(***************************************************************************)
(* The usage-metered streaming relay (handleTranslation).                  *)
(***************************************************************************)
MaxFrames == 2
MaxCallerFrames == 2
MaxCloseEvents == 3
TickMs == 400000
MaxClockMs == 900000

CloseEvents == {"worker_close", "server_close", "worker_error", "server_error"}

\* Math.ceil((endTime - startTime) / 1000)
CeilSeconds(ms) == (ms + 999) \div 1000

\* The frames the upstream sends: a string or a binary (ArrayBuffer) frame;
\* json: it parses as a JSON object (for a binary frame: its text starts
\* with "{", names usageMetadata and parses); hasUsage: json.usageMetadata.
UpstreamFrames ==
  {[binary |-> FALSE, json |-> TRUE, hasUsage |-> TRUE, usage |-> u] : u \in UsageSnapshots}
  \cup {[binary |-> TRUE, json |-> TRUE, hasUsage |-> TRUE, usage |-> u] :
          u \in UsageSnapshots \ {ZeroSnapshot}}
  \cup {[binary |-> b, json |-> j, hasUsage |-> FALSE, usage |-> ZeroSnapshot] :
          b \in BOOLEAN, j \in BOOLEAN}

\* Time passes; it is followed while a session can still be settled.
Tick ==
  /\ clock + TickMs <= MaxClockMs
  /\ \E s \in ProcIds : sess[s].state = "active"
  /\ clock' = clock + TickMs
  /\ UNCHANGED <<ledgerVars, procs, histVars, sess, nonRelay>>

\* The frames a caller sends: a string or a binary frame; json: its text
\* parses as JSON; setup: the JSON has a setup member.  by tells the frame
\* the relay builds from the ones the caller sends.
CallerFrames ==
  {[binary |-> FALSE, json |-> TRUE, setup |-> TRUE, by |-> "caller"],
   [binary |-> FALSE, json |-> TRUE, setup |-> FALSE, by |-> "caller"],
   [binary |-> FALSE, json |-> FALSE, setup |-> FALSE, by |-> "caller"],
   [binary |-> TRUE, json |-> FALSE, setup |-> FALSE, by |-> "caller"],
   [binary |-> TRUE, json |-> TRUE, setup |-> TRUE, by |-> "caller"]}

\* JSON.stringify(setupToGemini)
RelaySetup == [binary |-> FALSE, json |-> TRUE, setup |-> TRUE, by |-> "relay"]

\* A plausible slip: a missing upstream socket is not looked for.
NoUpstreamSocketIgnored(upstreamOk) == FALSE

\* if (!serverWebSocket), and the catch around the fetch
NoUpstreamSocket(upstreamOk) == ~upstreamOk

\* handleTranslation up to its response, for a request admission control
\* let through as (userId, tier): 426 without the upgrade header, 500 when
\* the upstream does not give a WebSocket, else the sockets are accepted,
\* the relay's own setup frame is sent upstream and the answer is 101.
Connect(s, userId, tier, upgrade, upstreamOk) ==
  /\ sess[s].state = "none"
  /\ sess' = [sess EXCEPT ![s] =
       IF ~upgrade THEN [state |-> "refused", response |-> 426, upstream |-> "untried"]
       ELSE IF NoUpstreamSocket(upstreamOk)
         THEN [state |-> "refused", response |-> 500, upstream |-> "failed"]
       ELSE [state |-> "active", response |-> 101,
             upstream |-> IF upstreamOk THEN "open" ELSE "failed",
             userId |-> userId, membershipTier |-> tier,
             startTime |-> clock,
             toUpstream |-> <<RelaySetup>>, toCaller |-> 0,
             usageMetadata |-> ZeroSnapshot, allUsageEvents |-> <<>>,
             logged |-> FALSE, workerOpen |-> TRUE, serverOpen |-> TRUE,
             threw |-> FALSE, fired |-> <<>>, settlements |-> 0]]
  /\ UNCHANGED <<ledgerVars, procs, histVars, clock, nonRelay>>

\* serverWebSocket 'message': a usage snapshot found in the frame replaces
\* the running one and is appended to the list; the frame goes to the caller.
ServerMessage(s, frame) ==
  LET se == sess[s] IN
  /\ se.state = "active"
  /\ se.toCaller < MaxFrames
  /\ sess' = [sess EXCEPT ![s] =
       [se EXCEPT
          !.usageMetadata = IF frame.json /\ frame.hasUsage THEN frame.usage ELSE @,
          !.allUsageEvents = IF frame.json /\ frame.hasUsage
                               THEN Append(@, frame.usage) ELSE @,
          !.toCaller = @ + 1]]
  /\ UNCHANGED <<ledgerVars, procs, histVars, clock, nonRelay>>

\* A plausible slip: a frame that parsed is sent on as a string.
ForwardedReencoded(frame) == IF frame.json THEN [frame EXCEPT !.binary = FALSE] ELSE frame

\* worker.send(data), serverWebSocket.send(data): the frame as it came
Forwarded(frame) == frame

\* serverWebSocket 'message' with the frames kept: what came and what went on
ServerFrame(s, frame) ==
  /\ ServerMessage(s, frame)
  /\ wire' = [wire EXCEPT ![s].fromUpstream = Append(@, frame),
                          ![s].toCaller = Append(@, Forwarded(frame))]

\* if (json.setup) return, for a string frame that parses
DropsSetup(frame) == ~frame.binary /\ frame.json /\ frame.setup

\* worker 'message': a setup frame in a string is dropped, every other
\* frame is sent upstream
WorkerMessage(s, frame) ==
  LET se == sess[s] IN
  /\ se.state = "active"
  /\ Len(wire[s].fromCaller) < MaxCallerFrames
  /\ wire' = [wire EXCEPT ![s].fromCaller = Append(@, frame)]
  /\ sess' = [sess EXCEPT ![s].toUpstream =
                 IF DropsSetup(frame) THEN @ ELSE Append(@, Forwarded(frame))]
  /\ UNCHANGED <<ledgerVars, procs, histVars, clock, nonRelay>>

\* A plausible slip: the once-only flag is never consulted.
AlreadyLoggedNever(se) == FALSE

\* if (logged) return
AlreadyLogged(se) == se.logged

\* close(1000, 'Work complete') on a socket: on an open socket it returns;
\* on a socket that has closed already it returns or throws
Throws(open) == IF open THEN {FALSE} ELSE BOOLEAN

\* A plausible slip: close() is called outside try/catch, what it throws
\* leaves the handler.
CaughtNever(threw) == ~threw

\* try { socket.close(1000, 'Work complete') } catch {}: the handler goes on
\* whether close() threw or not
Caught(threw) == TRUE

\* closeHandler, registered for 'close' and 'error' of both sockets.  The
\* socket whose 'close' is handled has closed already.
closeHandler(s, evt) ==
  LET se == sess[s]
      compiledUsage == aggregateUsage(se.allUsageEvents)
      cost == calculateCostFromBreakdown(compiledUsage)
      durationSeconds == CeilSeconds(clock - se.startTime)
      workerOpen == se.workerOpen /\ evt # "worker_close"
      serverOpen == se.serverOpen /\ evt # "server_close"
  IN
  /\ se.state \in {"active", "closed"}
  /\ Len(se.fired) < MaxCloseEvents
  /\ IF AlreadyLogged(se)
       THEN /\ sess' = [sess EXCEPT ![s] = [se EXCEPT !.fired = Append(@, evt)]]
            /\ UNCHANGED <<procs, histVars>>
       ELSE \E workerThrew \in Throws(workerOpen), serverThrew \in Throws(serverOpen) :
              LET pastWorker == Caught(workerThrew)
                  pastServer == pastWorker /\ Caught(serverThrew)
                  serverLeft == IF pastWorker THEN FALSE ELSE serverOpen
                  closed == [se EXCEPT !.logged = TRUE,
                                       !.state = IF serverLeft THEN "active" ELSE "closed",
                                       !.workerOpen = FALSE, !.serverOpen = serverLeft,
                                       !.threw = workerThrew \/ (pastWorker /\ serverThrew),
                                       !.fired = Append(@, evt),
                                       !.settlements = IF pastServer THEN @ + 1 ELSE @]
              IN /\ sess' = [sess EXCEPT ![s] = closed]
                 /\ IF /\ pastServer
                       /\ compiledUsage.input.total > 0 \/ compiledUsage.output.total > 0
                       /\ cost > 0
                      THEN /\ logUsage(s, se.userId, "live_translation",
                                       compiledUsage.input.audio + compiledUsage.output.audio,
                                       cost, durationSeconds, se.membershipTier, s)
                           /\ UNCHANGED seeded
                      ELSE UNCHANGED <<procs, histVars>>
  /\ UNCHANGED <<ledgerVars, clock, nonRelay>>

RelaySessions == {1}

RelayInit ==
  /\ today = 0
  /\ usageLogs = {}
  /\ userUsageStats = EmptyFcn
  /\ userCredits = [u \in Users |-> InitialBalance]
  /\ seeded = [u \in Users |-> InitialBalance]
  /\ creditPurchases = EmptyFcn
  /\ procs = [p \in ProcIds |-> IdleProc]
  /\ calls = <<>>
  /\ overlap = FALSE
  /\ clock = 0
  /\ sess = [s \in ProcIds |-> NoSession]
  /\ wire = NoWire
  /\ entitlements = {}
  /\ adm = NoRequest
  /\ gate = NoGate
  /\ hooks = NoDeliveries
  /\ delivered = <<>>

\* The sessions over time: here the frames are counted, their content is
\* followed in SpecFrames.
RelayNext ==
  \/ Tick /\ UNCHANGED wire
  \/ \E s \in RelaySessions, u \in Users, upgrade \in BOOLEAN, upstreamOk \in BOOLEAN :
       Connect(s, u, "FREE", upgrade, upstreamOk) /\ UNCHANGED wire
  \/ \E s \in RelaySessions, frame \in UpstreamFrames :
       ServerMessage(s, frame) /\ UNCHANGED wire
  \/ \E s \in RelaySessions, evt \in CloseEvents : closeHandler(s, evt) /\ UNCHANGED wire
  \/ \E s \in RelaySessions : LedgerStep(s)

SpecRelay == RelayInit /\ [][RelayNext]_vars

\* the frames followed by their content
FrameKinds ==
  {f \in UpstreamFrames :
     \/ ~f.binary
     \/ ~f.hasUsage /\ ~f.json
     \/ f.hasUsage /\ f.usage.promptTokenCount = 4}

FrameCloseEvents == {"worker_close", "server_error"}

\* The sessions by the content of their frames, with no time passing: a
\* session of no duration is recorded and has no overage to settle.
FramesNext ==
  \/ \E s \in RelaySessions, u \in Users, upgrade \in BOOLEAN, upstreamOk \in BOOLEAN :
       Connect(s, u, "FREE", upgrade, upstreamOk) /\ UNCHANGED wire
  \/ \E s \in RelaySessions, frame \in FrameKinds : ServerFrame(s, frame)
  \/ \E s \in RelaySessions, frame \in CallerFrames : WorkerMessage(s, frame)
  \/ \E s \in RelaySessions, evt \in FrameCloseEvents :
       closeHandler(s, evt) /\ UNCHANGED wire
  \/ \E s \in RelaySessions : LedgerWrite(s)

SpecFrames == RelayInit /\ [][FramesNext]_vars

\* the audit rows written for session s
SessionRows(s) ==
  {r \in usageLogs : r.id \in {i \in 1..Len(calls) : calls[i].origin = s}}

SessionCalls(s) == {i \in 1..Len(calls) : calls[i].origin = s}

ENDPOINT_TYPE_MAP ==
  << [path |-> <<"translation", "text">>,        type |-> "text_translation"],
     [path |-> <<"translation", "longtext">>,    type |-> "text_translation"],
     [path |-> <<"translation", "word">>,        type |-> "text_translation"],
     [path |-> <<"translation", "classify">>,    type |-> "text_classify"],
     [path |-> <<"translation", "image">>,       type |-> "image_translation"],
     [path |-> <<"translation", "live">>,        type |-> "live_translation"],
     [path |-> <<"translation", "tts">>,         type |-> "tts"],
     [path |-> <<"translation", "recognition">>, type |-> "recognition"] >>

Includes(pathname, path) ==
  \E i \in 1..Len(pathname) :
    /\ i + Len(path) - 1 <= Len(pathname)
    /\ SubSeq(pathname, i, i + Len(path) - 1) = path

RECURSIVE resourceTypeFrom(_, _)
resourceTypeFrom(pathname, i) ==
  IF i > Len(ENDPOINT_TYPE_MAP) THEN "text_translation"
  ELSE IF Includes(pathname, ENDPOINT_TYPE_MAP[i].path) THEN ENDPOINT_TYPE_MAP[i].type
  ELSE resourceTypeFrom(pathname, i + 1)

getResourceTypeFromUrl(pathname) == resourceTypeFrom(pathname, 1)

\* getUserEntitlements: the rows of one user
getUserEntitlements(rows, userId) == {e \in rows : e.userId = userId}

Entitlement(userId, entitlementId, status, expiresAt, isTrial, autoRenew) ==
  [userId |-> userId, entitlementId |-> entitlementId, status |-> status,
   expiresAt |-> expiresAt, isTrial |-> isTrial, autoRenew |-> autoRenew]

\* an expiresAt of null: the entitlement has no end
NoExpiry == -1

\* what a request carries before withAuth has attached anything to it
Undefined == "undefined"

\* A plausible slip: the status alone decides.
ActiveEntitlementsByStatus(rows, now) == {e \in rows : e.status = "active"}

\* e.status === 'active' && (e.expiresAt === null || e.expiresAt > Date.now())
ActiveEntitlements(rows, now) ==
  {e \in rows : e.status = "active" /\ (e.expiresAt = NoExpiry \/ e.expiresAt > now)}

\* A plausible slip: a cancelled trial keeps the table of its tier.
ResolveTierNoOverlay(rows, now) ==
  LET activeEntitlements == ActiveEntitlements(rows, now)
      entitlementIds == {e.entitlementId : e \in activeEntitlements}
  IN IF "unlimited_member" \in entitlementIds THEN "UNLIMITED"
     ELSE IF "pro_member" \in entitlementIds THEN "PRO"
     ELSE "FREE"

\* the tier withAuth settles on
ResolveTier(rows, now) ==
  LET activeEntitlements == ActiveEntitlements(rows, now)
      entitlementIds == {e.entitlementId : e \in activeEntitlements}
      tier == IF "unlimited_member" \in entitlementIds THEN "UNLIMITED"
              ELSE IF "pro_member" \in entitlementIds THEN "PRO"
              ELSE "FREE"
      isTrialCancelled == \E e \in activeEntitlements : e.isTrial = 1 /\ e.autoRenew = 0
  IN IF isTrialCancelled THEN "TRIAL_CANCELLED" ELSE tier

\* withAuth returns nothing when the request may go on
NoResponse == [status |-> 0]

Unauthorized(message) == [status |-> 401, message |-> message]

\* `${bound} ... exceeded for ${tier} tier on ${resourceType}. Limit: ${limit}, Used: ${used}`
RateLimited(bound, tier, resourceType, limit, used) ==
  [status |-> 429, bound |-> bound, tier |-> tier, resourceType |-> resourceType,
   limit |-> limit, used |-> used]

\* A plausible slip: a bound counts as exceeded only beyond the limit.
ExceededStrictly(used, limit) == used > limit

\* usage.daily >= limits.daily, and so for the other bounds
Exceeded(used, limit) == used >= limit

\* A plausible slip: the month is looked at before the day.
RateLimitCheckMonthlyFirst(tier, resourceType, limits, usage) ==
  IF Exceeded(usage.monthly, limits.monthly)
    THEN RateLimited("Monthly Rate limit", tier, resourceType, limits.monthly, usage.monthly)
  ELSE IF Exceeded(usage.daily, limits.daily)
    THEN RateLimited("Daily Rate limit", tier, resourceType, limits.daily, usage.daily)
  ELSE IF HasTotal(limits) /\ Exceeded(usage.total, limits.total)
    THEN RateLimited("Total Usage limit", tier, resourceType, limits.total, usage.total)
  ELSE NoResponse

RateLimitCheck(tier, resourceType, limits, usage) ==
  IF Exceeded(usage.daily, limits.daily)
    THEN RateLimited("Daily Rate limit", tier, resourceType, limits.daily, usage.daily)
  ELSE IF Exceeded(usage.monthly, limits.monthly)
    THEN RateLimited("Monthly Rate limit", tier, resourceType, limits.monthly, usage.monthly)
  ELSE IF HasTotal(limits) /\ Exceeded(usage.total, limits.total)
    THEN RateLimited("Total Usage limit", tier, resourceType, limits.total, usage.total)
  ELSE NoResponse

\* The Authorization header of a request: absent, a token that does not
\* verify (not three parts, or a signature that does not match), a verified
\* token without uid, or a verified token of a user, its exp still to come
\* ("valid") or already past ("expired"): verify never reads exp.
AuthHeaders ==
  {[kind |-> "missing"], [kind |-> "invalid"], [kind |-> "nouid"]}
  \cup {[kind |-> k, uid |-> u] : k \in {"valid", "expired"}, u \in Users}

\* withAuth: its response (none when admitted) and what it attaches to the
\* request.
withAuth(auth, pathname, rows, stats, date) ==
  IF auth.kind = "missing"
    THEN [response |-> Unauthorized("Missing Authorization header"),
          userId |-> Undefined, membershipTier |-> Undefined, resourceType |-> Undefined]
  ELSE IF auth.kind = "invalid"
    THEN [response |-> Unauthorized("Invalid or expired token"),
          userId |-> Undefined, membershipTier |-> Undefined, resourceType |-> Undefined]
  ELSE IF auth.kind = "nouid"
    THEN [response |-> Unauthorized("Invalid token payload"),
          userId |-> Undefined, membershipTier |-> Undefined, resourceType |-> Undefined]
  ELSE
    LET userId == auth.uid
        resourceType == getResourceTypeFromUrl(pathname)
        tier == ResolveTier(getUserEntitlements(rows, userId), date)
        limits == TIER_LIMITS[tier][resourceType]
        needTotal == HasTotal(limits)
        usage == getUsageStats(stats, userId, resourceType, needTotal, date)
    IN [response |-> RateLimitCheck(tier, resourceType, limits, usage),
        userId |-> userId, membershipTier |-> tier, resourceType |-> resourceType]

(***************************************************************************)
(* Requests at the gate, handled one after another.  The caller keeps to   *)
(* one route; adm holds the request in hand, withAuth's answer and, as     *)
(* history, the tally of the caller's authenticated requests of the day:   *)
(* clean while each of them was admitted and recorded, seq their number    *)
(* (counted as long as the day is clean).  The caller of the image route   *)
(* is followed over the days up to ImageMaxDay.                            *)
(***************************************************************************)
MaxRequests == 21
MaxFailures == 1
MaxRouteCalls == 3
ImageMaxDay == 1

RequestPaths ==
  {<<"translation", "image">>, <<"translation", "live">>, <<"user", "quota">>}
SessionSeconds == {400}

\* the entitlement rows a user may hold when the requests start
EntitlementSetups ==
  { {},
    {Entitlement("u1", "pro_member", "active", 1, 0, 1)},
    {Entitlement("u1", "pro_member", "active", NoExpiry, 1, 0)} }

\* lite alone
LiteSetup == {Entitlement("u1", "lite_member", "active", 2, 0, 1)}

\* further holdings: pro beside unlimited, a cancelled trial of pro with an
\* end, lite beside a superseded pro
TierSetups ==
  EntitlementSetups \cup
  { LiteSetup,
    {Entitlement("u1", "pro_member", "active", 2, 0, 1),
     Entitlement("u1", "unlimited_member", "active", 3, 0, 1)},
    {Entitlement("u1", "pro_member", "active", 2, 1, 0)},
    {Entitlement("u1", "pro_member", "superseded", 0, 0, 1),
     Entitlement("u1", "lite_member", "active", 2, 0, 1)},
    {Entitlement("u1", "unlimited_member", "expired", 0, 0, 0),
     Entitlement("u1", "pro_member", "transferred", 0, 0, 1)},
    {Entitlement("u1", "pro_member", "expired", 0, 1, 0)} }

\* A plausible slip: the handler runs whatever withAuth answered.
AdmittedWhateverAnswer(response) == TRUE

\* the router goes on to the handler only when withAuth returned nothing
Admitted(response) == response = NoResponse

Tally ==
  IF adm.tallyDay = today THEN [seq |-> adm.seq, clean |-> adm.clean]
  ELSE [seq |-> 0, clean |-> TRUE]

Request(auth) ==
  LET r == withAuth(auth, adm.path, entitlements, userUsageStats, today)
      counted == auth.kind \in {"valid", "expired"}
  IN
  /\ adm.phase \in {"start", "handled"}
       \/ (adm.phase = "checked" /\ ~Admitted(adm.response))
  /\ Quiescent
  /\ adm' = [adm EXCEPT !.phase = "checked", !.response = r.response, !.auth = auth.kind,
                        !.userId = r.userId, !.membershipTier = r.membershipTier,
                        !.resourceType = r.resourceType, !.day = today,
                        !.tallyDay = today,
                        !.seq = IF ~Tally.clean THEN 0
                                ELSE IF counted THEN Tally.seq + 1 ELSE Tally.seq,
                        !.cleanBefore = Tally.clean,
                        !.clean = Tally.clean /\ (counted => Admitted(r.response))]
  /\ UNCHANGED <<ledgerVars, procs, histVars, entitlements, gate, relayVars, hookVars>>

\* what becomes of the request in the handler: recorded tells whether it
\* ended in a logUsage call
Handled(response, recorded) ==
  LET clean == Tally.clean /\ recorded /\ adm.day = today IN
  [adm EXCEPT !.phase = "handled", !.response = response, !.auth = "",
              !.day = 0, !.cleanBefore = TRUE,
              !.tallyDay = today, !.seq = IF clean THEN Tally.seq ELSE 0,
              !.clean = clean,
              !.failures = IF recorded THEN @ ELSE @ + 1]

\* handleImageTranslation and the stream's end in translateImageAndStream
HandleImage(outcome) ==
  /\ adm.phase = "checked"
  /\ Admitted(adm.response)
  /\ adm.path = <<"translation", "image">>
  /\ ~InFlight(procs[1])
  /\ UNCHANGED <<ledgerVars, entitlements, gate, relayVars, hookVars>>
  /\ IF adm.userId = Undefined
       THEN /\ adm' = Handled([status |-> 401], FALSE)
            /\ adm.failures < MaxFailures
            /\ UNCHANGED <<procs, histVars>>
     ELSE IF outcome = "streamed"
       THEN /\ Len(calls) < MaxRequests
            /\ adm' = Handled([status |-> 200], TRUE)
            /\ \E t \in TokenCounts :
                 logUsage(1, adm.userId, "image_translation", t, t, 0, NoTier, "request")
            /\ UNCHANGED seeded
     ELSE /\ adm.failures < MaxFailures
          /\ adm' = Handled([status |-> IF outcome = "bad_request" THEN 400 ELSE 200], FALSE)
          /\ UNCHANGED <<procs, histVars>>

ImageOutcomes == {"streamed", "no_usage", "bad_request"}

\* A plausible slip: the tier is resolved again when the session closes.
SettlementTierAtClose(membershipTier, rows, userId, date) ==
  ResolveTier(getUserEntitlements(rows, userId), date)

\* closeHandler hands logUsage authReq.membershipTier, the tier withAuth
\* attached to the request when the session was admitted
SettlementTier(membershipTier, rows, userId, date) == membershipTier

\* handleTranslation for an admitted caller, by what its session leaves in
\* the ledger: one logUsage call at the close of a session with usage, none
\* for a session without.
HandleLive(outcome, durationSeconds) ==
  /\ adm.phase = "checked"
  /\ Admitted(adm.response)
  /\ adm.path = <<"translation", "live">>
  /\ ~InFlight(procs[1])
  /\ UNCHANGED <<ledgerVars, entitlements, gate, relayVars, hookVars>>
  /\ IF outcome = "settled" /\ adm.userId # Undefined
       THEN /\ Len(calls) < MaxRequests
            /\ adm' = Handled([status |-> 101], TRUE)
            /\ \E t \in TokenCounts :
                 logUsage(1, adm.userId, "live_translation", t, t, durationSeconds,
                          SettlementTier(adm.membershipTier, entitlements, adm.userId, today),
                          "request")
            /\ UNCHANGED seeded
     ELSE /\ adm.failures < MaxFailures
          /\ adm' = Handled([status |-> 101], FALSE)
          /\ UNCHANGED <<procs, histVars>>

LiveOutcomes == {"settled", "no_usage"}

\* the resource types handleGetQuota reports on
QuotaResourceTypes == {"text_translation", "image_translation", "live_translation"}

\* the quota of one bound: limit, remaining, used
BoundQuota(limit, used) ==
  [limit |-> limit, remaining |-> Max(0, limit - used), used |-> used]

\* typeQuota.total of a table without a total bound: -1 stands for unlimited
NoTotalQuota(used) == [limit |-> -1, remaining |-> -1, used |-> used]

\* handleGetQuota: the response to GET /user/quota; a membership_expire_at
\* of null is NoExpiry
handleGetQuota(userId, membershipTier, rows, stats, date) ==
  IF userId = Undefined THEN [status |-> 401]
  ELSE
    LET activeEntitlements == ActiveEntitlements(getUserEntitlements(rows, userId), date)
        isTrialCancelled == \E e \in activeEntitlements : e.isTrial = 1 /\ e.autoRenew = 0
        tier == IF isTrialCancelled THEN "TRIAL_CANCELLED"
                ELSE IF membershipTier = Undefined THEN "FREE"
                ELSE membershipTier
        typeQuota(type) ==
          LET limitConfig == TIER_LIMITS[tier][type]
              needTotal == HasTotal(limitConfig)
              usage == getUsageStats(stats, userId, type, needTotal, date)
          IN [daily |-> BoundQuota(limitConfig.daily, usage.daily),
              monthly |-> BoundQuota(limitConfig.monthly, usage.monthly),
              total |-> IF needTotal THEN BoundQuota(limitConfig.total, usage.total)
                        ELSE NoTotalQuota(usage.total)]
        definingEntitlementId ==
          IF tier = "UNLIMITED" THEN "unlimited_member"
          ELSE IF tier = "PRO" THEN "pro_member"
          ELSE Undefined
        found == {e \in activeEntitlements : e.entitlementId = definingEntitlementId}
        expirationTimestamp ==
          IF definingEntitlementId = Undefined \/ found = {} THEN NoExpiry
          ELSE LET ent == CHOOSE e \in found : TRUE
               IN IF ent.expiresAt \in {NoExpiry, 0} THEN NoExpiry ELSE ent.expiresAt
    IN [status |-> 200, tier |-> tier, membership_expire_at |-> expirationTimestamp,
        is_trial_cancelled |-> isTrialCancelled,
        quotas |-> [type \in QuotaResourceTypes |-> typeQuota(type)]]

\* the last two answers of the quota endpoint, each with the day withAuth
\* resolved the tier, the day of the answer and the records it was computed
\* from; none yet
NoQuote ==
  [checked |-> -1, day |-> -1, stats |-> EmptyFcn, rows |-> {}, credits |-> EmptyFcn,
   answer |-> [status |-> 0]]

\* the quota request leaves nothing in the ledger: the tally of the day
\* ends with it
HandledUnmetered(response) ==
  [adm EXCEPT !.phase = "handled", !.response = response, !.auth = "",
              !.day = 0, !.cleanBefore = TRUE,
              !.tallyDay = today, !.seq = 0, !.clean = FALSE,
              !.quotedBefore = adm.quoted,
              !.quoted = [checked |-> adm.day, day |-> today, stats |-> userUsageStats, rows |-> entitlements,
                          credits |-> userCredits, answer |-> response]]

\* A plausible slip: the quota request is counted as the text translation
\* withAuth measured it as.
AfterQuotaCounted(stats, userId, date) ==
  UpsertStat(stats, StatKey(userId, "text_translation", "daily", getUtcDateStrings(date).daily),
             0, 0)

\* handleGetQuota reads getUserEntitlements and getUsageStats and writes
\* nothing: the aggregates after the request are the aggregates before it
AfterQuota(stats, userId, date) == stats

\* GET /user/quota behind withAuth
HandleQuota ==
  /\ adm.phase = "checked"
  /\ Admitted(adm.response)
  /\ adm.path = <<"user", "quota">>
  /\ adm' = HandledUnmetered(handleGetQuota(adm.userId, adm.membershipTier, entitlements,
                                            userUsageStats, today))
  /\ userUsageStats' = AfterQuota(userUsageStats, adm.userId, today)
  /\ UNCHANGED <<today, usageLogs, userCredits, creditPurchases, procs, histVars,
                 entitlements, gate, relayVars, hookVars>>

\* the holdings of the callers followed
SetupsFor(path) ==
  IF path = <<"translation", "image">> THEN EntitlementSetups
  ELSE IF path = <<"translation", "live">> THEN EntitlementSetups \cup {LiteSetup}
  ELSE TierSetups

\* the aggregates of one live session of SettledBefore seconds settled on
\* day 0, as logUsage leaves them
SettledBefore == 400
PriorUsage ==
  LET keys == getUtcDateStrings(0)
      one(stats, periodType, periodValue) ==
        UpsertStat(stats, StatKey("u1", "live_translation", periodType, periodValue),
                   SettledBefore, 0)
  IN one(one(one(EmptyFcn, "daily", keys.daily), "monthly", keys.monthly), "total", TotalKey)

\* the aggregates the text translations of the two months before leave
\* when they have used up the total of the FREE table: 40 and 40 on the
\* days of one month, 20 in the next
TextUsage ==
  LET row(n) == [count |-> n, durationSeconds |-> 0, totalTokens |-> 0]
      day(d, n) == StatKey("u1", "text_translation", "daily", getUtcDateStrings(d).daily)
                     :> row(n)
      month(d, n) == StatKey("u1", "text_translation", "monthly", getUtcDateStrings(d).monthly)
                       :> row(n)
  IN day(0 - 4, 40) @@ day(0 - 3, 40) @@ day(0 - 2, 20)
     @@ month(0 - 4, 80) @@ month(0 - 2, 20)
     @@ (StatKey("u1", "text_translation", "total", TotalKey)
           :> row(TIER_LIMITS["FREE"]["text_translation"].total))

\* the caller of the quota route may have used the live route or the text
\* routes before
UsageFor(path) ==
  IF path = <<"user", "quota">> THEN {EmptyFcn, PriorUsage, TextUsage} ELSE {EmptyFcn}

\* The callers followed: the caller of the live route may hold a balance.
CreditsFor(path) ==
  IF path = <<"translation", "live">> THEN {EmptyFcn, [u \in Users |-> InitialBalance]}
  ELSE {EmptyFcn}

AdmitInit ==
  /\ today = 0
  /\ usageLogs = {}
  /\ creditPurchases = EmptyFcn
  /\ procs = [p \in ProcIds |-> IdleProc]
  /\ calls = <<>>
  /\ overlap = FALSE
  /\ clock = 0
  /\ sess = [s \in ProcIds |-> NoSession]
  /\ wire = NoWire
  /\ hooks = NoDeliveries
  /\ delivered = <<>>
  /\ \E path \in RequestPaths :
       /\ entitlements \in SetupsFor(path)
       /\ userUsageStats \in UsageFor(path)
       /\ userCredits \in CreditsFor(path)
       /\ adm = [phase |-> "start", path |-> path, response |-> NoResponse, auth |-> "",
                 userId |-> Undefined, membershipTier |-> Undefined, resourceType |-> Undefined,
                 day |-> 0, tallyDay |-> 0, seq |-> 0, clean |-> TRUE,
                 cleanBefore |-> TRUE, failures |-> 0,
                 quoted |-> NoQuote, quotedBefore |-> NoQuote]
  /\ gate = NoGate
  /\ seeded = [u \in Users |-> Balance(userCredits, u)]

AdmitNext ==
  \/ \E auth \in AuthHeaders : Request(auth)
  \/ \E outcome \in ImageOutcomes : HandleImage(outcome)
  \/ \E outcome \in LiveOutcomes, d \in SessionSeconds : HandleLive(outcome, d)
  \/ HandleQuota
  \/ LedgerStep(1)
  \/ (adm.path = <<"translation", "image">> => today < ImageMaxDay) /\ NextDay

SpecAdmit == AdmitInit /\ [][AdmitNext]_vars

(***************************************************************************)
(* Claims about admission control.                                         *)
(***************************************************************************)
\* withAuth has just answered an authenticated request, on this same day
JustChecked == adm.phase = "checked" /\ adm.userId # Undefined /\ adm.day = today

\* the limits and the usage the request in hand is measured against
LimitsInHand == TIER_LIMITS[adm.membershipTier][adm.resourceType]
UsageInHand == getUsageStats(userUsageStats, adm.userId, adm.resourceType, TRUE, today)

CountMetered == {"image_translation", "text_translation"}

\* all the usage there is was made today: the day started from zero
StartedFromZero == UsageInHand.monthly = UsageInHand.daily /\ UsageInHand.total = UsageInHand.daily

\* C4: starting from zero usage, with the requests of the day handled one
\* after another and each admitted one recorded before the next is checked,
\* the L-th request of the day against a daily limit L is admitted and the
\* (L+1)-th is answered 429 with the daily-limit message (limit L, used L).
C4_DailyBoundary ==
  (JustChecked /\ adm.cleanBefore /\ StartedFromZero /\ adm.resourceType \in CountMetered) =>
    LET L == LimitsInHand.daily IN
    /\ adm.seq = UsageInHand.daily + 1
    /\ adm.seq <= L => Admitted(adm.response)
    /\ adm.seq = L + 1 =>
         adm.response = RateLimited("Daily Rate limit", adm.membershipTier,
                                    adm.resourceType, L, L)

\* C4's case: the 21st image request of a FREE user's day, the twenty before
\* it admitted and recorded, is turned away.
C4_Witness ==
  /\ JustChecked /\ adm.cleanBefore /\ StartedFromZero
  /\ adm.resourceType = "image_translation"
  /\ adm.membershipTier = "FREE"
  /\ adm.seq = 21
  /\ Cardinality({r \in usageLogs : r.createdAt = today}) = 20
  /\ adm.response.status = 429

\* the bounds in the order they are looked at, each with its limit and usage
BoundsInOrder ==
  LET l == LimitsInHand
      u == UsageInHand
  IN << [name |-> "Daily Rate limit", limit |-> l.daily, used |-> u.daily],
        [name |-> "Monthly Rate limit", limit |-> l.monthly, used |-> u.monthly] >>
     \o (IF "total" \in DOMAIN l
           THEN << [name |-> "Total Usage limit", limit |-> l.total, used |-> u.total] >>
           ELSE << >>)

ExceededBounds == {i \in 1..Len(BoundsInOrder) : BoundsInOrder[i].used >= BoundsInOrder[i].limit}

Rejected(a) == a.phase = "checked" /\ a.response.status \in {401, 429}

\* C6: a request turned away by admission control (401 or 429) leaves the
\* ledger as it was: the step that turns it away and every step taken while
\* it is the request in hand write no usage event, change no aggregate row
\* and no balance, and start no logUsage call.
C6_RejectionKeepsLedger ==
  [][ (Rejected(adm) \/ Rejected(adm')) =>
        UNCHANGED <<usageLogs, userUsageStats, userCredits, creditPurchases, procs, calls>>
    ]_vars

\* C6's case: a request is turned away with 429 while the ledger holds
\* usage.
C6_Witness ==
  /\ Rejected(adm)
  /\ adm.response.status = 429
  /\ usageLogs # {}
  /\ userUsageStats # EmptyFcn

(***************************************************************************)
(* Credit purchases (controllers/revenuecat.ts).  A delivery is one POST   *)
(* of the store's webhook; its statements on the database are atomic, the  *)
(* handler is not.  hooks.sent and hooks.overlapped are history.           *)
(***************************************************************************)
MaxDeliveries == 3

\* amountSeconds of the products that are credit packages
PackageSeconds == [packages_499 |-> 3600, packages_1999 |-> 36000]

\* select ... where id = transactionId
ExistingPurchase(purchases, transactionId) == transactionId \in DOMAIN purchases

\* A plausible slip: the insert does not fail on a purchase id already there.
UniqueConstraintNever(purchases, transactionId) == FALSE

\* the primary key of credit_purchases refuses a second row of one id
UniqueConstraintFailed(purchases, transactionId) == transactionId \in DOMAIN purchases

InsertPurchase(purchases, transactionId, userId, productId, amountSeconds) ==
  [t \in DOMAIN purchases \cup {transactionId} |->
     IF t = transactionId
       THEN [userId |-> userId, productId |-> productId,
             amountSeconds |-> amountSeconds, source |-> "revenuecat"]
       ELSE purchases[t]]

\* insert into user_credits ... on conflict: balanceSeconds + amountSeconds
CreditUpsert(credits, userId, amountSeconds) ==
  [u \in DOMAIN credits \cup {userId} |->
     IF u = userId
       THEN (IF u \in DOMAIN credits THEN credits[u] ELSE 0) + amountSeconds
       ELSE credits[u]]

Sent == SumOver(Txns, hooks.sent)

Answer(h, status, outcome) ==
  [hooks EXCEPT !.proc[h].pc = "done", !.proc[h].status = status,
                !.proc[h].outcome = outcome]

HookFrame ==
  UNCHANGED <<today, usageLogs, userUsageStats, procs, histVars, relayVars, admVars, delivered>>

\* handleRevenueCatWebhook for a NON_RENEWING_PURCHASE event without
\* entitlements, up to the first statement of handleConsumablePurchase
Deliver(h, secretOk, hasEvent, userId, txn) ==
  LET productId == Purchases[txn]
      started == [pc |-> "check", txn |-> txn, userId |-> userId,
                  amountSeconds |-> IF productId \in DOMAIN PackageSeconds
                                      THEN PackageSeconds[productId] ELSE 0,
                  status |-> 0, outcome |-> ""]
      busy == \E q \in ProcIds : hooks.proc[q].pc \notin {"idle", "done"}
  IN
  /\ hooks.proc[h].pc \in {"idle", "done"}
  /\ Sent < MaxDeliveries
  /\ IF ~secretOk
       THEN hooks' = [hooks EXCEPT !.proc[h] = [NoDelivery EXCEPT !.pc = "done", !.status = 401]]
     ELSE IF ~hasEvent
       THEN hooks' = [hooks EXCEPT !.proc[h] = [NoDelivery EXCEPT !.pc = "done", !.status = 400]]
     ELSE IF productId \notin DOMAIN PackageSeconds
       THEN hooks' = [hooks EXCEPT !.proc[h] = [started EXCEPT !.pc = "done", !.status = 200,
                                                               !.outcome = "ignored"],
                                   !.sent[txn] = @ + 1]
     ELSE hooks' = [hooks EXCEPT !.proc[h] = started, !.sent[txn] = @ + 1,
                                 !.overlapped = @ \/ busy]
  /\ UNCHANGED <<userCredits, creditPurchases>>
  /\ HookFrame

\* A plausible slip: a purchase found already recorded is credited again.
CheckExistingCreditsAgain(h) ==
  /\ hooks.proc[h].pc = "check"
  /\ hooks' = [hooks EXCEPT !.proc[h].pc =
                 IF ExistingPurchase(creditPurchases, hooks.proc[h].txn)
                   THEN "credit" ELSE "insert"]
  /\ UNCHANGED <<userCredits, creditPurchases>>
  /\ HookFrame

\* the idempotency check: a purchase already recorded ends the delivery
CheckExisting(h) ==
  /\ hooks.proc[h].pc = "check"
  /\ hooks' = IF ExistingPurchase(creditPurchases, hooks.proc[h].txn)
                THEN Answer(h, 200, "duplicate")
                ELSE [hooks EXCEPT !.proc[h].pc = "insert"]
  /\ UNCHANGED <<userCredits, creditPurchases>>
  /\ HookFrame

\* the insert of the purchase row; its unique-constraint failure is caught
\* and the delivery ends as a success
RecordPurchase(h) ==
  LET d == hooks.proc[h] IN
  /\ d.pc = "insert"
  /\ IF UniqueConstraintFailed(creditPurchases, d.txn)
       THEN /\ hooks' = Answer(h, 200, "constraint")
            /\ UNCHANGED creditPurchases
       ELSE /\ hooks' = [hooks EXCEPT !.proc[h].pc = "credit"]
            /\ creditPurchases' = InsertPurchase(creditPurchases, d.txn, d.userId,
                                                 Purchases[d.txn], d.amountSeconds)
  /\ UNCHANGED userCredits
  /\ HookFrame

\* the balance upsert, and the 200 that follows
CreditBalance(h) ==
  LET d == hooks.proc[h] IN
  /\ d.pc = "credit"
  /\ userCredits' = CreditUpsert(userCredits, d.userId, d.amountSeconds)
  /\ hooks' = Answer(h, 200, "credited")
  /\ UNCHANGED creditPurchases
  /\ HookFrame

HookInit ==
  /\ today = 0
  /\ usageLogs = {}
  /\ userUsageStats = EmptyFcn
  /\ userCredits \in {EmptyFcn, [u \in Users |-> InitialBalance]}
  /\ seeded = [u \in Users |-> Balance(userCredits, u)]
  /\ creditPurchases = EmptyFcn
  /\ procs = [p \in ProcIds |-> IdleProc]
  /\ calls = <<>>
  /\ overlap = FALSE
  /\ clock = 0
  /\ sess = [s \in ProcIds |-> NoSession]
  /\ wire = NoWire
  /\ entitlements = {}
  /\ adm = NoRequest
  /\ gate = NoGate
  /\ hooks = NoDeliveries
  /\ delivered = <<>>

HookNext ==
  \/ \E h \in ProcIds, secretOk \in BOOLEAN, hasEvent \in BOOLEAN, u \in Users, txn \in Txns :
       Deliver(h, secretOk, hasEvent, u, txn)
  \/ \E h \in ProcIds : CheckExisting(h)
  \/ \E h \in ProcIds : RecordPurchase(h)
  \/ \E h \in ProcIds : CreditBalance(h)

SpecHook == HookInit /\ [][HookNext]_vars

HooksQuiet == \A h \in ProcIds : hooks.proc[h].pc \in {"idle", "done"}

\* the package purchases delivered at least once, and their seconds
DeliveredPackages ==
  {t \in Txns : hooks.sent[t] > 0 /\ Purchases[t] \in DOMAIN PackageSeconds}
PurchasedSeconds(S) == SumOver(S, [t \in Txns |-> PackageSeconds[Purchases[t]]])

\* C7: when a purchase (one transaction id) is delivered two or more times
\* one after another, the balance has grown by its seconds exactly once,
\* there is exactly one purchase row of that id, and every delivery was
\* answered 200.
C7_RedeliveryIsIdempotent ==
  (HooksQuiet /\ ~hooks.overlapped) =>
    /\ \A u \in Users :
         Balance(userCredits, u) = seeded[u] + PurchasedSeconds(DeliveredPackages)
    /\ DOMAIN creditPurchases = DeliveredPackages
    /\ \A h \in ProcIds :
         hooks.proc[h].outcome # "" => hooks.proc[h].status = 200

\* C7's case: a package delivered three times in a row; the last delivery
\* found it recorded.
C7_Witness ==
  /\ HooksQuiet /\ ~hooks.overlapped
  /\ hooks.sent["t1"] = 3
  /\ \E h \in ProcIds : hooks.proc[h].outcome = "duplicate"
  /\ Balance(userCredits, "u1") = seeded["u1"] + 3600

\* C8: with deliveries of one transaction handled at the same time, in
\* every interleaving of their existence checks, inserts and balance
\* upserts there is never more than one purchase row of an id and the
\* balance is never credited twice; when the deliveries have ended it has
\* been credited exactly once, and the delivery that lost the race on the
\* unique id was answered 200.
C8_RaceCreditsOnce ==
  /\ \A u \in Users :
       Balance(userCredits, u) <= seeded[u] + PurchasedSeconds(DeliveredPackages)
  /\ DOMAIN creditPurchases \subseteq DeliveredPackages
  /\ \A h \in ProcIds :
       hooks.proc[h].outcome = "constraint" => hooks.proc[h].status = 200
  /\ HooksQuiet =>
       /\ \A u \in Users :
            Balance(userCredits, u) = seeded[u] + PurchasedSeconds(DeliveredPackages)
       /\ DOMAIN creditPurchases = DeliveredPackages

\* C8's case: two deliveries of one purchase overlapped, one lost the race
\* on the insert, and the purchase is credited once.
C8_Witness ==
  /\ HooksQuiet /\ hooks.overlapped
  /\ hooks.sent["t2"] = 2
  /\ \E h, g \in ProcIds :
       /\ hooks.proc[h].outcome = "constraint" /\ hooks.proc[h].txn = "t2"
       /\ hooks.proc[g].outcome = "credited" /\ hooks.proc[g].txn = "t2"
  /\ Balance(userCredits, "u1") = seeded["u1"] + 36000

(***************************************************************************)
(* Claims about the grace debt of the credit ledger.                       *)
(***************************************************************************)
\* C11: a deduction larger than the balance goes through: whenever a
\* settlement has an amount to deduct its decrement can run, it ends the
\* call without error, and it leaves the old balance minus the amount,
\* below zero where the amount was the larger; it is never floored and
\* never held back.
C11_DeductionNeverBlocked ==
  /\ [](\A p \in ProcIds : procs[p].pc = "deduct" => ENABLED SettleDeduct(p))
  /\ [][ \A p \in ProcIds :
           (procs[p].pc = "deduct" /\ procs'[p] # procs[p]) =>
             /\ procs'[p].pc = "done"
             /\ \A u \in Users :
                  Balance(userCredits', u) =
                    Balance(userCredits, u)
                      - (IF u = procs[p].userId THEN procs[p].amount ELSE 0)
       ]_vars

\* C11's case: a balance of 10 seconds has been drawn on for 100 and stands
\* at -90.
C11_Witness ==
  /\ Quiescent
  /\ seeded["u1"] = LowBalance
  /\ Balance(userCredits, "u1") = LowBalance - 100
  /\ \E i \in 1..Len(calls) : IsLiveSettled(calls[i]) /\ DailyOverflow(i) = 100

\* C12 as the claim states it: for live_translation a caller who has
\* reached a quota bound is still admitted while the credit balance is
\* positive, and is answered 429 when it is zero or absent.
C12_CreditsAdmitOverQuota ==
  (JustChecked /\ adm.resourceType = "live_translation" /\ ExceededBounds # {}) =>
    IF Balance(userCredits, adm.userId) > 0
      THEN Admitted(adm.response)
      ELSE adm.response.status = 429

(***************************************************************************)
(* Tiers.  The caller's active entitlements of a day, the tier-defining    *)
(* ones among them, and the answer of the quota endpoint once given.  The  *)
(* entitlements do not change while the requests are followed, so what is  *)
(* active today was active when the answer in hand was made.               *)
(***************************************************************************)
ActiveOf(userId, day) == ActiveEntitlements(getUserEntitlements(entitlements, userId), day)
ActiveIds(userId, day) == {e.entitlementId : e \in ActiveOf(userId, day)}

TierEntitlements == {"unlimited_member", "pro_member", "lite_member"}

\* UNLIMITED > PRO > LITE > FREE
HighestTier(ids) ==
  IF "unlimited_member" \in ids THEN "UNLIMITED"
  ELSE IF "pro_member" \in ids THEN "PRO"
  ELSE IF "lite_member" \in ids THEN "LITE"
  ELSE "FREE"

TrialCancelledOn(userId, day) ==
  \E e \in ActiveOf(userId, day) : e.isTrial = 1 /\ e.autoRenew = 0

QuotaAnswered ==
  adm.phase = "handled" /\ adm.path = <<"user", "quota">> /\ adm.response.status = 200

\* C13 as the claim states it: the tier attached to an authenticated request
\* is the highest of UNLIMITED > PRO > LITE > FREE whose entitlement id is
\* among the caller's active entitlements, FREE when there is none (callers
\* without a cancelled trial).
C13_TierPriority ==
  (JustChecked /\ ~TrialCancelledOn(adm.userId, today)) =>
    adm.membershipTier = HighestTier(ActiveIds(adm.userId, today))

\* C14 as the claim states it: a caller whose only active tier-defining
\* entitlement is lite_member is LITE at the gate and in the answer of the
\* quota endpoint, with the LITE table's bounds (text daily 60, live daily
\* 3600).
C14_LiteOnlyIsLite ==
  (/\ adm.userId # Undefined
   /\ ActiveIds(adm.userId, today) \cap TierEntitlements = {"lite_member"}
   /\ ~TrialCancelledOn(adm.userId, today)) =>
    /\ JustChecked => adm.membershipTier = "LITE"
    /\ QuotaAnswered =>
         /\ adm.response.tier = "LITE"
         /\ adm.response.quotas["text_translation"].daily.limit = 60
         /\ adm.response.quotas["live_translation"].daily.limit = 3600

\* the bounds of the TRIAL_CANCELLED table the usage has reached
CancelledTrialBounds(resourceType, usage) ==
  LET limits == TIER_LIMITS["TRIAL_CANCELLED"][resourceType] IN
  {b \in {"daily", "monthly"} : usage[b] >= limits[b]}
  \cup {b \in {"total"} : HasTotal(limits) /\ usage.total >= limits.total}

\* C15: while the caller holds an active, unexpired entitlement with
\* isTrial = 1 and autoRenew = 0, the gate measures the request against the
\* TRIAL_CANCELLED table (answering 429 exactly when one of its bounds is
\* reached, with that table's limit), and the quota endpoint answers with
\* that table's limits and is_trial_cancelled = true.
C15_CancelledTrialTable ==
  /\ (JustChecked /\ TrialCancelledOn(adm.userId, today)) =>
       LET table == TIER_LIMITS["TRIAL_CANCELLED"][adm.resourceType]
           reached == CancelledTrialBounds(adm.resourceType, UsageInHand)
       IN /\ adm.membershipTier = "TRIAL_CANCELLED"
          /\ Admitted(adm.response) <=> reached = {}
          /\ reached # {} =>
               /\ adm.response.status = 429
               /\ adm.response.tier = "TRIAL_CANCELLED"
               /\ \E b \in reached : adm.response.limit = table[b]
  /\ (QuotaAnswered /\ TrialCancelledOn(adm.userId, today)) =>
       /\ adm.response.tier = "TRIAL_CANCELLED"
       /\ adm.response.is_trial_cancelled = TRUE
       /\ \A type \in QuotaResourceTypes :
            LET table == TIER_LIMITS["TRIAL_CANCELLED"][type]
                quota == adm.response.quotas[type]
            IN /\ quota.daily.limit = table.daily
               /\ quota.monthly.limit = table.monthly
               /\ quota.total.limit = IF HasTotal(table) THEN table.total ELSE -1

\* C15's case: the holder of an active pro_member in a cancelled trial is
\* turned away from the live route at 1800 seconds of the month.
C15_Witness ==
  /\ JustChecked
  /\ adm.resourceType = "live_translation"
  /\ "pro_member" \in ActiveIds(adm.userId, today)
  /\ TrialCancelledOn(adm.userId, today)
  /\ UsageInHand.monthly >= 1800
  /\ adm.response.status = 429
  /\ adm.response.limit = 1800

\* the quota endpoint's half of C15's case
C15_QuotaAnswered ==
  /\ QuotaAnswered
  /\ TrialCancelledOn(adm.userId, today)
  /\ adm.response.quotas["live_translation"].monthly.limit = 1800

\* C16 as the claim states it: under the overlay the quota endpoint's
\* membership_expire_at is still the expiresAt of the caller's tier-defining
\* active entitlement, not null.
C16_ExpiryKeptUnderOverlay ==
  (QuotaAnswered /\ TrialCancelledOn(adm.userId, today)) =>
    \A e \in ActiveOf(adm.userId, today) :
      (/\ e.entitlementId = "pro_member"
       /\ "unlimited_member" \notin ActiveIds(adm.userId, today)
       /\ e.expiresAt # NoExpiry) =>
        adm.response.membership_expire_at = e.expiresAt

(***************************************************************************)
(* The billing webhook as a whole: handleRevenueCatWebhook for every kind  *)
(* of request, the entitlement writes of one event taken in one step (no   *)
(* other writer of entitlements runs beside it), a NON_RENEWING_PURCHASE   *)
(* going on into the steps of handleConsumablePurchase above.  Date.now()  *)
(* is the day, which does not pass here.  hooks.request keeps the request  *)
(* of the last delivery and hooks.events counts the events processed.      *)
(* originalAppUserId and updatedAt of the rows are not followed.           *)
(***************************************************************************)
MaxEvents == 2

\* the users table: credential -> id
RegisteredUsers == [cred1 |-> "u1"]

\* findUserByCredential: the user's id, Undefined when there is none
findUserByCredential(credential) ==
  IF credential \in DOMAIN RegisteredUsers THEN RegisteredUsers[credential] ELSE Undefined

\* insert ... onConflictDoUpdate on (userId, entitlementId): last write wins
\* A plausible slip: on conflict the row with the later end is kept.
upsertUserEntitlementKeepLater(rows, userId, entitlementId, expiresAt, status, isTrial, autoRenew) ==
  IF \E e \in rows : e.userId = userId /\ e.entitlementId = entitlementId
                      /\ e.expiresAt > expiresAt
    THEN rows
  ELSE {e \in rows : ~(e.userId = userId /\ e.entitlementId = entitlementId)}
       \cup {Entitlement(userId, entitlementId, status, expiresAt,
                         IF isTrial THEN 1 ELSE 0, IF autoRenew THEN 1 ELSE 0)}

upsertUserEntitlement(rows, userId, entitlementId, expiresAt, status, isTrial, autoRenew) ==
  {e \in rows : ~(e.userId = userId /\ e.entitlementId = entitlementId)}
  \cup {Entitlement(userId, entitlementId, status, expiresAt,
                    IF isTrial THEN 1 ELSE 0, IF autoRenew THEN 1 ELSE 0)}

\* for (const entId of entitlementIds) upsert(..., newStatus, ..., isTrial, autoRenew)
RECURSIVE UpsertEach(_, _, _, _, _, _, _, _)
UpsertEach(rows, userId, ids, i, expiresAt, status, isTrial, autoRenew) ==
  IF i > Len(ids) THEN rows
  ELSE UpsertEach(upsertUserEntitlement(rows, userId, ids[i], expiresAt, status,
                                        isTrial, autoRenew),
                  userId, ids, i + 1, expiresAt, status, isTrial, autoRenew)

SeqIncludes(ids, x) == \E i \in 1..Len(ids) : ids[i] = x

\* the two rows a PRODUCT_CHANGE supersedes, in the order written
SupersededBy(ids) ==
  IF SeqIncludes(ids, "unlimited_member") THEN <<"pro_member", "lite_member">>
  ELSE IF SeqIncludes(ids, "pro_member") THEN <<"lite_member", "unlimited_member">>
  ELSE IF SeqIncludes(ids, "lite_member") THEN <<"pro_member", "unlimited_member">>
  ELSE <<>>

\* A plausible slip: a change of product supersedes the lower tiers only.
ProductChangeLowerOnly(rows, userId, ids, now) ==
  LET lower == IF SeqIncludes(ids, "unlimited_member") THEN <<"pro_member", "lite_member">>
               ELSE IF SeqIncludes(ids, "pro_member") THEN <<"lite_member">>
               ELSE <<>>
  IN UpsertEach(rows, userId, lower, 1, now, "superseded", FALSE, TRUE)

\* the clean-up of a PRODUCT_CHANGE
ProductChange(rows, userId, ids, now) ==
  UpsertEach(rows, userId, SupersededBy(ids), 1, now, "superseded", FALSE, TRUE)

\* for (const fromUserId of event.transferred_from) for (const entId of entitlementIds)
RECURSIVE Transfer(_, _, _, _, _)
Transfer(rows, from, j, ids, now) ==
  IF j > Len(from) THEN rows
  ELSE Transfer(UpsertEach(rows, from[j], ids, 1, now, "transferred", FALSE, TRUE),
                from, j + 1, ids, now)

\* A plausible slip: every event leaves the row active.
NewStatusAlwaysActive(event) == "active"

\* let newStatus = 'active'; if (event.type === 'EXPIRATION') newStatus = 'expired'
NewStatus(event) == IF event.type = "EXPIRATION" THEN "expired" ELSE "active"

\* A plausible slip: only an EXPIRATION turns auto-renew off.
AutoRenewUnlessExpired(event) == event.type # "EXPIRATION"

\* let autoRenew = true; CANCELLATION and EXPIRATION set it to false
AutoRenew(event) == event.type \notin {"CANCELLATION", "EXPIRATION"}

\* the entitlement part of the handler, for an event with its user resolved
ApplyEntitlements(rows, event, targetUserId, now) ==
  LET ids == event.entitlement_ids
      newStatus == NewStatus(event)
      isTrial == event.period_type = "TRIAL"
      autoRenew == AutoRenew(event)
      written == UpsertEach(rows, targetUserId, ids, 1, event.expiration_at_ms, newStatus,
                            isTrial, autoRenew)
      changed == IF event.type = "PRODUCT_CHANGE"
                   THEN ProductChange(written, targetUserId, ids, now)
                   ELSE written
  IN IF Len(ids) = 0 THEN rows
     ELSE IF event.type = "TRANSFER" /\ Len(event.transferred_from) > 0
       THEN Transfer(changed, event.transferred_from, 1, ids, now)
     ELSE changed

\* A plausible slip: the identity of a TRANSFER is never looked for in
\* transferred_to.
AppUserIdNoFallback(event) == event.app_user_id

\* event.app_user_id, or transferred_to[0] of a TRANSFER without one
AppUserId(event) ==
  IF event.app_user_id = Undefined /\ event.type = "TRANSFER" /\ Len(event.transferred_to) > 0
    THEN event.transferred_to[1]
  ELSE event.app_user_id

\* user ? user.id : appUserId
TargetUserId(appUserId) ==
  IF findUserByCredential(appUserId) # Undefined THEN findUserByCredential(appUserId)
  ELSE appUserId

Event(type, appUserId, ids, expiresAt, periodType, from, to, txn) ==
  [type |-> type, app_user_id |-> appUserId, entitlement_ids |-> ids,
   expiration_at_ms |-> expiresAt, period_type |-> periodType,
   transferred_from |-> from, transferred_to |-> to, transaction_id |-> txn]

AppUserIds == {"cred1", "u2"}
EntitlementIdLists == {<<>>, <<"lite_member">>, <<"pro_member">>, <<"unlimited_member">>}
SubscriptionEvents == {"INITIAL_PURCHASE", "CANCELLATION", "EXPIRATION", "PRODUCT_CHANGE"}
ExpirationTime == 2

\* the events delivered: those of a subscription for an identified user,
\* those of a trial, the ones without app_user_id, the transfers with and
\* without app_user_id, a transfer away from a billing identity that is the
\* credential of a registered user, and the purchase of a credit package,
\* with and without entitlement_ids
Events ==
  {Event(type, a, ids, ExpirationTime, "NORMAL", <<>>, <<>>, "") :
     type \in SubscriptionEvents, a \in AppUserIds, ids \in EntitlementIdLists}
  \cup {Event(type, "cred1", <<"pro_member">>, ExpirationTime, "TRIAL", <<>>, <<>>, "") :
          type \in {"INITIAL_PURCHASE", "CANCELLATION"}}
  \cup {Event(type, Undefined, <<"pro_member">>, ExpirationTime, "NORMAL", <<>>, <<>>, "") :
          type \in SubscriptionEvents}
  \cup {Event("TRANSFER", a, <<"pro_member">>, ExpirationTime, "NORMAL", from, to, "") :
          a \in AppUserIds \cup {Undefined},
          from \in {<<>>, <<"u2">>, <<"u1">>}, to \in {<<>>, <<"u2">>}}
  \cup {Event("TRANSFER", Undefined, <<>>, NoExpiry, "NORMAL", <<"u1">>, <<"u2">>, "")}
  \cup {Event("TRANSFER", "u2", <<"pro_member">>, ExpirationTime, "NORMAL", <<"cred1">>,
               <<"u2">>, "")}
  \cup {Event("NON_RENEWING_PURCHASE", a, <<>>, NoExpiry, "NORMAL", <<>>, <<>>, "t1") :
          a \in {"cred1", Undefined}}
  \cup {Event("NON_RENEWING_PURCHASE", "cred1", <<"pro_member">>, ExpirationTime, "NORMAL",
               <<>>, <<>>, "t1")}

\* the Authorization header of a webhook request
Secret == "secret"
WebhookAuths == {"missing", "wrong", Secret}

\* the bodies: one that is not JSON, one without event, one with an event
WebhookBodies ==
  {[kind |-> "malformed"], [kind |-> "no_event"]}
  \cup {[kind |-> "event", event |-> e] : e \in Events}

\* A plausible slip: any Authorization header passes, only its absence fails.
AuthorizedIfPresent(authHeader) == authHeader # "missing"

\* !authHeader || authHeader !== env.REVENUECAT_WEBHOOK_SECRET
Authorized(authHeader) == authHeader # "missing" /\ authHeader = Secret

Responded(h, status, outcome, auth, body) ==
  [hooks EXCEPT !.proc[h] = [NoDelivery EXCEPT !.pc = "done", !.status = status,
                                               !.outcome = outcome],
                !.request = [auth |-> auth] @@ body]

\* handleRevenueCatWebhook
Webhook(h, auth, body) ==
  /\ hooks.proc[h].pc \in {"idle", "done"}
  /\ LET event == body.event
         appUserId == AppUserId(event)
         targetUserId == TargetUserId(appUserId)
         productId == Purchases[event.transaction_id]
     IN
     IF ~Authorized(auth)
       THEN /\ hooks' = Responded(h, 401, "", auth, body)
            /\ UNCHANGED entitlements
     ELSE IF body.kind = "malformed"
       THEN /\ hooks' = Responded(h, 500, "", auth, body)
            /\ UNCHANGED entitlements
     ELSE IF body.kind = "no_event"
       THEN /\ hooks' = Responded(h, 400, "", auth, body)
            /\ UNCHANGED entitlements
     ELSE IF appUserId = Undefined
       THEN /\ hooks' = Responded(h, 400, "", auth, body)
            /\ UNCHANGED entitlements
     ELSE /\ hooks.events < MaxEvents
          /\ entitlements' = ApplyEntitlements(entitlements, event, targetUserId, today)
          /\ IF event.type # "NON_RENEWING_PURCHASE"
               THEN hooks' = [Responded(h, 200, "", auth, body) EXCEPT !.events = @ + 1]
             ELSE IF productId \notin DOMAIN PackageSeconds
               THEN hooks' = [Responded(h, 200, "ignored", auth, body)
                                EXCEPT !.events = @ + 1, !.sent[event.transaction_id] = @ + 1]
             ELSE hooks' = [hooks EXCEPT
                              !.proc[h] = [pc |-> "check", txn |-> event.transaction_id,
                                           userId |-> targetUserId,
                                           amountSeconds |-> PackageSeconds[productId],
                                           status |-> 0, outcome |-> ""],
                              !.request = [auth |-> auth] @@ body,
                              !.events = @ + 1,
                              !.sent[event.transaction_id] = @ + 1]
  /\ UNCHANGED <<today, usageLogs, userUsageStats, userCredits, creditPurchases,
                 procs, histVars, relayVars, adm, gate>>

\* the steps of a purchase, which leave the entitlements alone
BillingStep ==
  \/ \E h \in ProcIds : CheckExisting(h)
  \/ \E h \in ProcIds : RecordPurchase(h)
  \/ \E h \in ProcIds : CreditBalance(h)

BillingNext ==
  \/ \E auth \in WebhookAuths, body \in WebhookBodies :
       Webhook(1, auth, body) /\ UNCHANGED delivered
  \/ BillingStep

BillingInit == HookInit /\ userCredits = EmptyFcn

SpecBilling == BillingInit /\ [][BillingNext]_vars

(***************************************************************************)
(* The life of a subscription: the events of one billing identity on its   *)
(* entitlements, delivered in any order while the days pass.  The user     *)
(* starts without rows or in a running trial of pro_member.                *)
(***************************************************************************)
LifecycleEvents == {"INITIAL_PURCHASE", "RENEWAL", "CANCELLATION", "EXPIRATION"}
PeriodTypes == {"NORMAL", "TRIAL"}
PeriodEnds == {1, 3}

SubscriptionDeliveries ==
  {Event(type, "cred1", <<"pro_member">>, end, period, <<>>, <<>>, "") :
     type \in LifecycleEvents, end \in PeriodEnds, period \in PeriodTypes}
  \cup {Event(type, "cred1", <<"unlimited_member">>, end, "NORMAL", <<>>, <<>>, "") :
          type \in {"INITIAL_PURCHASE", "EXPIRATION"}, end \in PeriodEnds}

\* the row an INITIAL_PURCHASE of a trial ending on day 3 leaves
RunningTrial == {Entitlement("u1", "pro_member", "active", 3, 1, 1)}

SubscriptionInit ==
  /\ today = 0
  /\ usageLogs = {}
  /\ userUsageStats = EmptyFcn
  /\ userCredits = EmptyFcn
  /\ seeded = [u \in Users |-> 0]
  /\ creditPurchases = EmptyFcn
  /\ procs = [p \in ProcIds |-> IdleProc]
  /\ calls = <<>>
  /\ overlap = FALSE
  /\ clock = 0
  /\ sess = [s \in ProcIds |-> NoSession]
  /\ wire = NoWire
  /\ entitlements \in {{}, RunningTrial}
  /\ adm = NoRequest
  /\ gate = NoGate
  /\ hooks = NoDeliveries
  /\ delivered = <<>>

\* a delivery with the right secret, taken in and remembered
SubscriptionEvent(event) ==
  /\ Webhook(1, Secret, [kind |-> "event", event |-> event])
  /\ delivered' = Append(delivered, event)

SubscriptionNext ==
  \/ \E event \in SubscriptionDeliveries : SubscriptionEvent(event)
  \/ NextDay

SpecSubscription == SubscriptionInit /\ [][SubscriptionNext]_vars

\* the last delivery was an event, taken in by the handler and answered 200
\* (for a purchase: taken in, its steps perhaps still to come)
Processed ==
  /\ hooks.request.kind = "event"
  /\ hooks.request.auth = Secret
  /\ hooks.proc[1].status \in {0, 200}
  /\ hooks.proc[1].pc # "idle"

LastEvent == hooks.request.event

\* the rows of one user and entitlement (at most one, by the key)
RowsOf(userId, entitlementId) ==
  {e \in entitlements : e.userId = userId /\ e.entitlementId = entitlementId}

StatusOf(userId, entitlementId) == {e.status : e \in RowsOf(userId, entitlementId)}

\* the (userId, entitlementId) key holds
KeyHolds ==
  \A e1, e2 \in entitlements :
    (e1.userId = e2.userId /\ e1.entitlementId = e2.entitlementId) => e1 = e2

\* C17: right after a PRODUCT_CHANGE naming one tier-defining entitlement
\* has been processed, that entitlement of the user is active and the two
\* other tier-defining entitlements are superseded, upgrade or downgrade, so
\* that exactly one tier-defining entitlement of the user is active.
C17_ProductChangeLeavesOne ==
  (/\ Processed
   /\ LastEvent.type = "PRODUCT_CHANGE"
   /\ Len(LastEvent.entitlement_ids) = 1
   /\ LastEvent.entitlement_ids[1] \in TierEntitlements) =>
    LET user == TargetUserId(LastEvent.app_user_id)
        named == LastEvent.entitlement_ids[1]
    IN /\ KeyHolds
       /\ StatusOf(user, named) = {"active"}
       /\ \A other \in TierEntitlements \ {named} : StatusOf(user, other) = {"superseded"}
       /\ Cardinality({e \in entitlements :
                         /\ e.userId = user
                         /\ e.entitlementId \in TierEntitlements
                         /\ e.status = "active"}) = 1

\* C17's case: a second event changes the product to lite_member, below
\* the unlimited_member it supersedes.
C17_Witness ==
  /\ Processed
  /\ hooks.events = 2
  /\ LastEvent.type = "PRODUCT_CHANGE"
  /\ LastEvent.entitlement_ids = <<"lite_member">>
  /\ StatusOf("u1", "lite_member") = {"active"}
  /\ StatusOf("u1", "unlimited_member") = {"superseded"}
  /\ StatusOf("u1", "pro_member") = {"superseded"}

\* C18 as the claim states it: after a TRANSFER of entitlement E is
\* processed, the row (user, E) of every user in transferred_from is
\* transferred, the row of the destination is active, and the source rows
\* and the destination row carry the same expiresAt (the destination not
\* being one of the sources).
C18_TransferKeepsExpiry ==
  (/\ Processed
   /\ LastEvent.type = "TRANSFER"
   /\ Len(LastEvent.entitlement_ids) = 1
   /\ LastEvent.app_user_id # Undefined
   /\ ~SeqIncludes(LastEvent.transferred_from, TargetUserId(LastEvent.app_user_id))) =>
    LET E == LastEvent.entitlement_ids[1]
        from == LastEvent.transferred_from
        destination == TargetUserId(LastEvent.app_user_id)
    IN \A j \in 1..Len(from) :
         /\ StatusOf(from[j], E) = {"transferred"}
         /\ StatusOf(destination, E) = {"active"}
         /\ \A s \in RowsOf(from[j], E), d \in RowsOf(destination, E) :
              s.expiresAt = d.expiresAt

\* the three kinds of record the webhook writes
BillingRecords == <<entitlements, creditPurchases, userCredits>>

\* C19: an event without app_user_id is answered 400 and the step that
\* answers 400 leaves the entitlements, the purchases and the balances as
\* they were; but a TRANSFER with a first transferred_to is answered 200
\* and processed for that identity: its entitlement becomes a row of that
\* user, active unless the user is also among transferred_from.
C19_MissingIdentity ==
  /\ [](( /\ hooks.request.kind = "event"
          /\ hooks.request.auth = Secret
          /\ LastEvent.app_user_id = Undefined ) =>
          IF LastEvent.type = "TRANSFER" /\ Len(LastEvent.transferred_to) > 0
            THEN LET user == TargetUserId(LastEvent.transferred_to[1]) IN
                 /\ hooks.proc[1].status = 200
                 /\ \A i \in 1..Len(LastEvent.entitlement_ids) :
                      StatusOf(user, LastEvent.entitlement_ids[i]) =
                        IF SeqIncludes(LastEvent.transferred_from, user)
                          THEN {"transferred"} ELSE {"active"}
            ELSE hooks.proc[1].status = 400)
  /\ [][ (hooks' # hooks /\ hooks'.proc[1].status = 400) => UNCHANGED BillingRecords ]_vars

\* C19's case: a TRANSFER without app_user_id handed pro_member to u2, the
\* first of transferred_to, and took it from u1.
C19_Witness ==
  /\ Processed
  /\ LastEvent.type = "TRANSFER"
  /\ LastEvent.app_user_id = Undefined
  /\ LastEvent.transferred_to = <<"u2">>
  /\ LastEvent.transferred_from = <<"u1">>
  /\ hooks.proc[1].status = 200
  /\ StatusOf("u2", "pro_member") = {"active"}
  /\ StatusOf("u1", "pro_member") = {"transferred"}

\* C20: a request whose Authorization header is missing or is not the
\* shared secret is answered 401 whatever its body, and the step that
\* answers 401 leaves the entitlements, the purchases and the balances as
\* they were.
C20_BadSecret ==
  /\ []((hooks.request.kind # "none" /\ hooks.request.auth # Secret) =>
          hooks.proc[1].pc = "done" /\ hooks.proc[1].status = 401)
  /\ [][ (hooks' # hooks /\ hooks'.proc[1].status = 401) => UNCHANGED BillingRecords ]_vars

\* C20's case: a purchase of pro_member for a known user, sent with a wrong
\* secret after an event went through, is answered 401.
C20_Witness ==
  /\ hooks.request.auth = "wrong"
  /\ hooks.request.kind = "event"
  /\ LastEvent.type = "INITIAL_PURCHASE"
  /\ LastEvent.app_user_id = "cred1"
  /\ LastEvent.entitlement_ids = <<"pro_member">>
  /\ hooks.proc[1].status = 401
  /\ hooks.events = 1
  /\ RowsOf("u1", "pro_member") = {}

\* C21 as the claim states it: a NON_RENEWING_PURCHASE goes to the credit
\* ledger only and creates or changes no entitlement row, whatever it
\* carries: when it is the first event processed, there is still no
\* entitlement row.
C21_PurchaseLeavesEntitlements ==
  (Processed /\ LastEvent.type = "NON_RENEWING_PURCHASE" /\ hooks.events = 1) =>
    entitlements = {}

(***************************************************************************)
(* The frames of a session and what is billed for them.                    *)
(***************************************************************************)
\* the usage-metadata objects of the upstream frames that reached the relay
CarriesUsage(frame) == frame.json /\ frame.hasUsage
UsageOf(frames) ==
  LET carrying == SelectSeq(frames, CarriesUsage)
  IN [i \in 1..Len(carrying) |-> carrying[i].usage]

\* of one snapshot: its audio tokens, its tokens in all, and twice its price
SnapshotAudio(u) ==
  (IF u.hasPromptDetails THEN SumDetails(u.promptTokensDetails, "AUDIO") ELSE 0)
  + (IF u.hasResponseDetails THEN SumDetails(u.responseTokensDetails, "AUDIO") ELSE 0)

SnapshotTokens(u) ==
  u.promptTokenCount + u.thoughtsTokenCount
  + (IF u.hasResponseDetails
       THEN SumDetails(u.responseTokensDetails, "TEXT")
            + SumDetails(u.responseTokensDetails, "AUDIO")
            + SumDetails(u.responseTokensDetails, "IMAGE")
       ELSE u.responseTokenCount)

SnapshotPrice2(u) ==
  (u.promptTokenCount
   + (IF u.hasPromptDetails THEN SumDetails(u.promptTokensDetails, "TEXT")
      ELSE u.promptTokenCount))
  + 6 * (IF u.hasPromptDetails THEN SumDetails(u.promptTokensDetails, "AUDIO") ELSE 0)
  + 4 * (u.thoughtsTokenCount
         + (IF u.hasResponseDetails THEN SumDetails(u.responseTokensDetails, "TEXT")
            ELSE u.responseTokenCount))
  + 24 * (IF u.hasResponseDetails THEN SumDetails(u.responseTokensDetails, "AUDIO") ELSE 0)

RECURSIVE SumAudio(_)
SumAudio(us) == IF us = <<>> THEN 0 ELSE SnapshotAudio(Head(us)) + SumAudio(Tail(us))
RECURSIVE SumTokens(_)
SumTokens(us) == IF us = <<>> THEN 0 ELSE SnapshotTokens(Head(us)) + SumTokens(Tail(us))
RECURSIVE SumPrice2(_)
SumPrice2(us) == IF us = <<>> THEN 0 ELSE SnapshotPrice2(Head(us)) + SumPrice2(Tail(us))

Settled(s) == Len(sess[s].fired) > 0 /\ ~InFlight(procs[s])

C23_OneSetupUpstream ==
  \A s \in RelaySessions :
    sess[s].state \in {"active", "closed"} =>
      LET up == sess[s].toUpstream IN
      /\ Len(up) >= 1
      /\ up[1] = RelaySetup
      /\ \A i \in 2..Len(up) : ~(up[i].json /\ up[i].setup)

\* C24: when the upstream gives no socket the relay fails closed: the
\* answer is 500 and never 101, the session never becomes active, no close
\* handler ever runs for it, and it leaves no logUsage call, no usage event
\* and no change of a balance.
C24_FailsClosed ==
  /\ [](\A s \in RelaySessions :
          (sess[s].state # "none" /\ sess[s].upstream = "failed") =>
            /\ sess[s].state = "refused"
            /\ sess[s].response = 500
            /\ SessionCalls(s) = {}
            /\ SessionRows(s) = {}
            /\ \A u \in Users : Balance(userCredits, u) = seeded[u])
  /\ [][ \A s \in RelaySessions :
           sess[s].state = "refused" => sess'[s] = sess[s] ]_vars

\* C24's case: the upgrade was asked for and the upstream gave no socket.
C24_Witness ==
  \E s \in RelaySessions :
    /\ sess[s].state = "refused"
    /\ sess[s].upstream = "failed"
    /\ sess[s].response = 500

\* C25 as the claim states it: a request whose token is missing, malformed,
\* wrongly signed or expired is answered 401 and nothing is attached to it.
C25_BadTokenRejected ==
  (adm.phase = "checked" /\ adm.auth \in {"missing", "invalid", "expired"}) =>
    /\ adm.response.status = 401
    /\ adm.userId = Undefined
    /\ adm.membershipTier = Undefined

\* the records a quota answer was computed from are the records of another
SameRecords(q1, q2) ==
  q1.stats = q2.stats /\ q1.rows = q2.rows /\ q1.credits = q2.credits

\* tier, and limit, used and remaining of every bound of every resource type
SameAnswer(a1, a2) ==
  a1.status = 200 /\ a2.status = 200 /\ a1.tier = a2.tier /\ a1.quotas = a2.quotas

\* two quota answers, one after the other, from the same records
TwoQuotes ==
  /\ adm.path = <<"user", "quota">>
  /\ adm.quotedBefore.day >= 0
  /\ SameRecords(adm.quotedBefore, adm.quoted)

\* both requests were received and answered on one UTC day
SameDay ==
  /\ adm.quotedBefore.checked = adm.quotedBefore.day
  /\ adm.quoted.checked = adm.quoted.day
  /\ adm.quotedBefore.day = adm.quoted.day

\* the step in which handleGetQuota answers
QuotaStep ==
  adm.path = <<"user", "quota">> /\ adm.phase = "checked" /\ adm'.phase = "handled"

\* C26, amended: two quota requests of one user received and answered on the
\* same UTC day, with no usage, entitlement or credit change between them,
\* return the same tier and the same limit, used and remaining for every
\* resource type; and a quota request changes no usage, entitlement or
\* credit record.
C26_QuotaSameDayDeterministic ==
  /\ []((TwoQuotes /\ SameDay) =>
          SameAnswer(adm.quotedBefore.answer, adm.quoted.answer))
  /\ [][QuotaStep => UNCHANGED <<usageLogs, userUsageStats, entitlements, userCredits,
                                 creditPurchases>>]_vars

\* two answers on one day to a caller with usage on record
C26_Witness ==
  /\ QuotaAnswered
  /\ TwoQuotes
  /\ SameDay
  /\ adm.quoted.answer.quotas["live_translation"].daily.used = SettledBefore

\* C26 as the claim states it: any two quota requests with no usage,
\* entitlement or credit change between them return identical values.
C26_QuotaDeterministic ==
  TwoQuotes => SameAnswer(adm.quotedBefore.answer, adm.quoted.answer)

(***************************************************************************)
(* Requests at the gate side by side.  Each invocation of the worker runs  *)
(* withAuth, then the handler, then the statements of logUsage, against    *)
(* the one database; nothing orders the invocations of one user.  The      *)
(* caller is a FREE user of the image route whose recorded usage stands    *)
(* one or two requests below the daily bound.                              *)
(***************************************************************************)
MaxGateRequests == 2
GateUser == "u1"
GatePath == <<"translation", "image">>
GateEndpoint == "image_translation"
GateLimits == TIER_LIMITS["FREE"][GateEndpoint]

\* the history, the audit rows and the aggregates n recorded image
\* translations of day 0 leave
PriorCalls(n) ==
  [i \in 1..n |-> [userId |-> GateUser, endpoint |-> GateEndpoint, durationSeconds |-> 0,
                   tier |-> NoTier, day |-> 0, origin |-> "request"]]

PriorLogs(n) ==
  {[id |-> i, userId |-> GateUser, endpoint |-> GateEndpoint, totalTokens |-> 0,
    costMicros |-> 0, durationSeconds |-> Null, createdAt |-> 0] : i \in 1..n}

PriorStats(n) ==
  LET keys == getUtcDateStrings(0)
      row == [count |-> n, durationSeconds |-> 0, totalTokens |-> 0]
  IN (StatKey(GateUser, GateEndpoint, "daily", keys.daily) :> row)
     @@ (StatKey(GateUser, GateEndpoint, "monthly", keys.monthly) :> row)
     @@ (StatKey(GateUser, GateEndpoint, "total", TotalKey) :> row)

\* between withAuth's check and the last statement of logUsage
InWindow(q) ==
  gate.req[q].phase = "checked" \/ (gate.req[q].phase = "writing" /\ InFlight(procs[q]))

\* withAuth on one invocation; raced records that another invocation of the
\* user was between its check and its last write
GateCheck(p) ==
  LET g == gate.req[p]
      r == withAuth([kind |-> "valid", uid |-> GateUser], GatePath, entitlements,
                    userUsageStats, today)
  IN /\ g.phase \in {"idle", "rejected"} \/ (g.phase = "writing" /\ ~InFlight(procs[p]))
     /\ g.n < MaxGateRequests
     /\ gate' = [gate EXCEPT
                   !.raced = @ \/ (Admitted(r.response) /\ \E q \in ProcIds \ {p} : InWindow(q)),
                   !.req[p] = [phase |-> IF Admitted(r.response) THEN "checked" ELSE "rejected",
                               n |-> g.n + 1]]
     /\ UNCHANGED <<ledgerVars, procs, histVars, entitlements, adm, relayVars, hookVars>>

\* the handler of an admitted request: the stream ends and logUsage is called
GateHandle(p) ==
  /\ gate.req[p].phase = "checked"
  /\ gate' = [gate EXCEPT !.req[p].phase = "writing"]
  /\ logUsage(p, GateUser, GateEndpoint, 0, 0, 0, NoTier, "request")
  /\ UNCHANGED <<ledgerVars, seeded, entitlements, adm, relayVars, hookVars>>

GateInit ==
  /\ today = 0
  /\ \E n \in {GateLimits.daily - 2, GateLimits.daily - 1} :
       /\ usageLogs = PriorLogs(n)
       /\ userUsageStats = PriorStats(n)
       /\ calls = PriorCalls(n)
  /\ userCredits = EmptyFcn
  /\ creditPurchases = EmptyFcn
  /\ procs = [p \in ProcIds |-> IdleProc]
  /\ overlap = FALSE
  /\ seeded = [u \in Users |-> 0]
  /\ clock = 0
  /\ sess = [s \in ProcIds |-> NoSession]
  /\ wire = NoWire
  /\ entitlements = {}
  /\ adm = NoRequest
  /\ gate = NoGate
  /\ hooks = NoDeliveries
  /\ delivered = <<>>

GateNext ==
  \E p \in ProcIds : GateCheck(p) \/ GateHandle(p) \/ LedgerWrite(p)

SpecGate == GateInit /\ [][GateNext]_vars

\* what is recorded for the caller at the gate
GateUsed == getUsageStats(userUsageStats, GateUser, GateEndpoint, TRUE, today)

\* C27: the check and the usage write are not atomic.  Requests checked one
\* after the other never bring the recorded usage over the bound; requests
\* checked side by side do, by at most one request for each further
\* invocation in flight.
C27_OverAdmissionByRaceOnly ==
  /\ ~gate.raced => GateUsed.daily <= GateLimits.daily
  /\ GateUsed.daily <= GateLimits.daily + (NProcs - 1)

\* two requests passed the check at one below the bound and both recorded
C27_Witness ==
  /\ gate.raced
  /\ Quiescent
  /\ GateUsed.daily = GateLimits.daily + 1
  /\ GateUsed.monthly > GateLimits.monthly
  /\ Cardinality(usageLogs) = GateLimits.daily + 1

\* the tier the caller's entitlements resolve to now
TierNow(userId) == ResolveTier(getUserEntitlements(entitlements, userId), today)

\* the overage of the session being settled, against the limits of a tier
OverageAgainst(tier) ==
  deductible(getUsageStats(userUsageStats, procs[1].userId, "live_translation", FALSE, today),
             procs[1].durationSeconds, TIER_LIMITS[tier]["live_translation"])

\* C28: the tier a live session is settled with is the tier withAuth
\* resolved when the session was admitted, whatever the caller's
\* entitlements resolve to at the close: the call is recorded with it and
\* the overage is computed against its limits.
C28_SettledWithAdmissionTier ==
  /\ [][(adm.phase = "checked" /\ adm.path = <<"translation", "live">>
           /\ Len(calls') > Len(calls))
         => calls'[Len(calls')].tier = adm.membershipTier]_vars
  /\ [][(adm.path = <<"translation", "live">> /\ procs[1].pc = "settle"
           /\ procs'[1].pc # "settle")
         => procs'[1].amount = OverageAgainst(adm.membershipTier)]_vars

\* a session admitted as PRO and settled after the entitlement ran out, with
\* usage over the FREE bounds: nothing is deducted
C28_Witness ==
  /\ adm.path = <<"translation", "live">>
  /\ adm.phase = "handled"
  /\ procs[1].pc = "done"
  /\ procs[1].call = Len(calls)
  /\ procs[1].daily = today
  /\ adm.membershipTier = "PRO"
  /\ procs[1].tier = "PRO"
  /\ TierNow(adm.userId) = "FREE"
  /\ OverageAgainst("FREE") > 0
  /\ procs[1].amount = 0
  /\ \A u \in Users : Balance(userCredits, u) = seeded[u]

\* the usage the session collected is billable
Billable(s) ==
  LET compiledUsage == aggregateUsage(sess[s].allUsageEvents)
  IN /\ compiledUsage.input.total > 0 \/ compiledUsage.output.total > 0
     /\ calculateCostFromBreakdown(compiledUsage) > 0

\* C29: once a close or an error of either socket has been handled, both
\* sockets are closed and the session is Closed, and it has been settled
\* once, whether or not closing a socket that had closed already threw.
C29_BothClosedAndSettled ==
  \A s \in RelaySessions :
    (sess[s].state \in {"active", "closed"} /\ Len(sess[s].fired) > 0) =>
      /\ sess[s].state = "closed"
      /\ ~sess[s].workerOpen
      /\ ~sess[s].serverOpen
      /\ sess[s].settlements = 1
      /\ Billable(s) => \E i \in 1..Len(calls) : calls[i].origin = s

\* the caller's socket closed first, closing it again threw, and the
\* upstream socket was closed and the session billed all the same
C29_Witness ==
  \E s \in RelaySessions :
    /\ sess[s].state = "closed"
    /\ sess[s].fired[1] = "worker_close"
    /\ sess[s].threw
    /\ ~sess[s].serverOpen
    /\ Billable(s)
    /\ \E i \in 1..Len(calls) : calls[i].origin = s

\* a caller frame that is not a setup frame
NotSetup(frame) == ~(frame.json /\ frame.setup)

\* a session that was admitted
Relayed(s) == sess[s].state \in {"active", "closed"}

\* the step takes in a frame that does not parse, from either side
TakesUnparsed(s) ==
  \/ /\ Len(wire'[s].fromUpstream) > Len(wire[s].fromUpstream)
     /\ ~wire'[s].fromUpstream[Len(wire'[s].fromUpstream)].json
  \/ /\ Len(wire'[s].fromCaller) > Len(wire[s].fromCaller)
     /\ ~wire'[s].fromCaller[Len(wire'[s].fromCaller)].json

\* C30: every upstream frame goes to the caller as it came, with or without
\* usage metadata, parsed or not; every caller frame other than a setup
\* frame goes upstream as it came; and a frame that does not parse leaves
\* the session open, unsettled and its usage snapshots as they were.
C30_FramesUnchanged ==
  /\ [](\A s \in RelaySessions :
          Relayed(s) =>
            /\ wire[s].toCaller = wire[s].fromUpstream
            /\ SelectSeq(Tail(sess[s].toUpstream), NotSetup)
                 = SelectSeq(wire[s].fromCaller, NotSetup))
  /\ [][\A s \in RelaySessions :
          (Relayed(s) /\ TakesUnparsed(s)) =>
            /\ sess'[s].state = sess[s].state
            /\ sess'[s].logged = sess[s].logged
            /\ sess'[s].fired = sess[s].fired
            /\ sess'[s].settlements = sess[s].settlements
            /\ sess'[s].usageMetadata = sess[s].usageMetadata
            /\ sess'[s].allUsageEvents = sess[s].allUsageEvents
            /\ UNCHANGED <<ledgerVars, procs, calls>>]_vars

\* an open session that has passed on a usage frame in a binary frame and a
\* frame that does not parse to the caller, and a caller's frame that does
\* not parse upstream
C30_Witness ==
  \E s \in RelaySessions :
    /\ sess[s].state = "active"
    /\ \E i, j \in 1..Len(wire[s].toCaller) :
         /\ wire[s].toCaller[i].binary /\ wire[s].toCaller[i].hasUsage
         /\ ~wire[s].toCaller[j].json
    /\ Len(sess[s].allUsageEvents) = 1
    /\ \E k \in 2..Len(sess[s].toUpstream) :
         ~sess[s].toUpstream[k].json /\ ~sess[s].toUpstream[k].binary

\* the rows of the caller that count on a day: active, with no end or an
\* end still to come
Counting(userId, day) ==
  {e \in entitlements :
     /\ e.userId = userId
     /\ e.status = "active"
     /\ e.expiresAt = NoExpiry \/ e.expiresAt > day}

\* a tier is borne out by the rows that count
BorneOut(tier, userId, day) ==
  /\ tier = "UNLIMITED" => \E e \in Counting(userId, day) : e.entitlementId = "unlimited_member"
  /\ tier = "PRO" => \E e \in Counting(userId, day) : e.entitlementId = "pro_member"
  /\ tier = "TRIAL_CANCELLED" =>
       \E e \in Counting(userId, day) : e.isTrial = 1 /\ e.autoRenew = 0

\* the quota answer in hand was resolved and made today
QuotaAnsweredToday ==
  QuotaAnswered /\ adm.quoted.checked = today /\ adm.quoted.day = today

\* C31: the tier withAuth attaches, and the tier and the overlay the quota
\* endpoint reports, rest on rows that are active with no end or an end still
\* to come: an expired, superseded or transferred row, or an active row past
\* its end, raises nothing.
C31_OnlyCountingRowsRaiseTier ==
  /\ JustChecked => BorneOut(adm.membershipTier, adm.userId, today)
  /\ QuotaAnsweredToday =>
       /\ BorneOut(adm.response.tier, adm.userId, today)
       /\ adm.response.is_trial_cancelled =>
            \E e \in Counting(adm.userId, today) : e.isTrial = 1 /\ e.autoRenew = 0

\* a caller whose only pro row is active in name and past its end is FREE
C31_Witness ==
  /\ JustChecked
  /\ adm.membershipTier = "FREE"
  /\ \E e \in entitlements :
       /\ e.userId = adm.userId /\ e.entitlementId = "pro_member"
       /\ e.status = "active" /\ e.expiresAt # NoExpiry /\ e.expiresAt <= today

\* a caller whose rows are expired and transferred is reported FREE
C31_QuotaWitness ==
  /\ QuotaAnsweredToday
  /\ adm.response.tier = "FREE"
  /\ \E e \in entitlements : e.userId = adm.userId /\ e.status = "transferred"

\* the row of the subscriber under an entitlement id
SubscriberRows(id) == {e \in entitlements : e.userId = "u1" /\ e.entitlementId = id}

\* the place in the history of the last event on an entitlement id, 0 if none
LastOn(id) ==
  LET on == {i \in 1..Len(delivered) : SeqIncludes(delivered[i].entitlement_ids, id)}
  IN IF on = {} THEN 0 ELSE CHOOSE i \in on : \A j \in on : j <= i

\* C32: after an INITIAL_PURCHASE or a RENEWAL the row is active and ends
\* when the event says; after an EXPIRATION it is expired, does not renew and
\* counts for nothing, on that day and on every later day, for as long as no
\* later event on it has been taken in.
C32_LifecycleRow ==
  \A id \in {"pro_member", "unlimited_member"} :
    LastOn(id) # 0 =>
      LET event == delivered[LastOn(id)] IN
      \A e \in SubscriberRows(id) :
        /\ event.type \in {"INITIAL_PURCHASE", "RENEWAL"} =>
             e.status = "active" /\ e.expiresAt = event.expiration_at_ms
        /\ event.type = "EXPIRATION" =>
             /\ e.status = "expired"
             /\ e.autoRenew = 0
             /\ e \notin Counting("u1", today)
             /\ ResolveTier(getUserEntitlements(entitlements \ {x \in entitlements :
                                                  x.entitlementId # id}, "u1"), today) = "FREE"

\* a purchase ending on day 3 and then its EXPIRATION: the row is there,
\* expired before its end, and the user is FREE
C32_Witness ==
  /\ Len(delivered) = 2
  /\ delivered[1].type = "INITIAL_PURCHASE" /\ delivered[1].entitlement_ids = <<"pro_member">>
  /\ delivered[2].type = "EXPIRATION" /\ delivered[2].entitlement_ids = <<"pro_member">>
  /\ delivered[2].expiration_at_ms > today
  /\ \E e \in SubscriberRows("pro_member") : e.status = "expired"
  /\ ResolveTier(getUserEntitlements(entitlements, "u1"), today) = "FREE"

\* the tier the subscriber's rows resolve to today
SubscriberTier == ResolveTier(getUserEntitlements(entitlements, "u1"), today)

\* C33: after a CANCELLATION the row is still active, ends when the event
\* says and does not renew; while it counts, the cancelled trial puts the
\* user under TRIAL_CANCELLED; after a later RENEWAL or INITIAL_PURCHASE the
\* row renews again and the overlay is gone.
C33_CancellationOverlay ==
  LastOn("pro_member") # 0 =>
    LET event == delivered[LastOn("pro_member")] IN
    \A e \in SubscriberRows("pro_member") :
      /\ event.type = "CANCELLATION" =>
           /\ e.status = "active"
           /\ e.autoRenew = 0
           /\ e.expiresAt = event.expiration_at_ms
           /\ (e \in Counting("u1", today)) = (event.expiration_at_ms > today)
           /\ (event.period_type = "TRIAL" /\ event.expiration_at_ms > today) =>
                SubscriberTier = "TRIAL_CANCELLED"
      /\ event.type \in {"RENEWAL", "INITIAL_PURCHASE"} =>
           /\ e.autoRenew = 1
           /\ SubscriberTier # "TRIAL_CANCELLED"

\* a trial bought and cancelled: the user is under TRIAL_CANCELLED
C33_Witness ==
  /\ Len(delivered) = 2
  /\ delivered[1].type = "INITIAL_PURCHASE" /\ delivered[1].period_type = "TRIAL"
  /\ delivered[2].type = "CANCELLATION" /\ delivered[2].period_type = "TRIAL"
  /\ delivered[1].entitlement_ids = <<"pro_member">>
  /\ delivered[2].entitlement_ids = <<"pro_member">>
  /\ SubscriberTier = "TRIAL_CANCELLED"

\* the running trial cancelled and then renewed: the user is PRO again
C33_Lifted ==
  /\ Len(delivered) = 2
  /\ delivered[1].type = "CANCELLATION" /\ delivered[1].period_type = "TRIAL"
  /\ delivered[2].type = "RENEWAL"
  /\ delivered[2].entitlement_ids = <<"pro_member">>
  /\ SubscriberTier = "PRO"

\* what an event writes under each of its entitlement ids
WrittenBy(event, id) ==
  Entitlement("u1", id,
              IF event.type = "EXPIRATION" THEN "expired" ELSE "active",
              event.expiration_at_ms,
              IF event.period_type = "TRIAL" THEN 1 ELSE 0,
              IF event.type \in {"CANCELLATION", "EXPIRATION"} THEN 0 ELSE 1)

\* C34: the row under (user, entitlement) is the one row the event taken in
\* last on that key wrote, whatever the row held before and whatever the
\* period ends of the two events are.
C34_LastEventWins ==
  \A id \in {"pro_member", "unlimited_member"} :
    LastOn(id) # 0 => SubscriberRows(id) = {WrittenBy(delivered[LastOn(id)], id)}

\* an EXPIRATION of the period ending on day 3, then the RENEWAL of the
\* period ending on day 1 delivered late: the row is active again
C34_Witness ==
  /\ Len(delivered) = 2
  /\ delivered[1].type = "EXPIRATION" /\ delivered[1].expiration_at_ms = 3
  /\ delivered[2].type = "RENEWAL" /\ delivered[2].expiration_at_ms = 1
  /\ delivered[1].entitlement_ids = <<"pro_member">>
  /\ delivered[2].entitlement_ids = <<"pro_member">>
  /\ \E e \in SubscriberRows("pro_member") : e.status = "active" /\ e.expiresAt = 1

\* what the calls of a set amount to: seconds on the live route, requests
\* elsewhere
Amount(endpoint, cs) ==
  IF endpoint = "live_translation"
    THEN SumOver(cs, [i \in cs |-> calls[i].durationSeconds])
  ELSE Cardinality(cs)

\* the calls of a user on an endpoint issued on the days of a set
CallsOn(userId, endpoint, days) ==
  {i \in 1..Len(calls) :
     calls[i].userId = userId /\ calls[i].endpoint = endpoint /\ calls[i].day \in days}

\* the figures admission control reads today
Figures(userId, endpoint) == getUsageStats(userUsageStats, userId, endpoint, TRUE, today)

\* C35: the daily figure is what was recorded today, the monthly figure what
\* was recorded on the days of this UTC month, the total everything; so at
\* midnight the daily figure starts again at 0, the monthly one stays unless
\* the month changes, the total stays.
C35_FiguresFollowCalendar ==
  /\ [](Quiescent =>
          \A u \in Users, e \in MeteredEndpoints :
            /\ Figures(u, e).daily = Amount(e, CallsOn(u, e, {today}))
            /\ Figures(u, e).monthly
                 = Amount(e, CallsOn(u, e, {d \in Days : MonthOf(d) = MonthOf(today)}))
            /\ Figures(u, e).total = Amount(e, CallsOn(u, e, Days)))
  /\ [][today' # today =>
          \A u \in Users, e \in MeteredEndpoints :
            /\ Figures(u, e)'.daily = 0
            /\ Figures(u, e)'.total = Figures(u, e).total
            /\ Figures(u, e)'.monthly =
                 IF MonthOf(today') = MonthOf(today) THEN Figures(u, e).monthly ELSE 0]_vars

\* the day after live usage in the same month: nothing today, the usage
\* still in the month and in the total
C35_Witness ==
  /\ Quiescent
  /\ today = 1
  /\ \E u \in Users :
       /\ CallsOn(u, "live_translation", {0}) # {}
       /\ CallsOn(u, "live_translation", {1}) = {}
       /\ Figures(u, "live_translation").daily = 0
       /\ Figures(u, "live_translation").monthly > 0
       /\ Figures(u, "live_translation").total = Figures(u, "live_translation").monthly

\* the first day of the next month: the month starts again, the total stays
C35_NextMonth ==
  /\ Quiescent
  /\ today = 2
  /\ \E u \in Users :
       /\ Figures(u, "live_translation").monthly = 0
       /\ Figures(u, "live_translation").total > 0

(***************************************************************************)
(* Settlements of sessions that overlap.                                   *)
(***************************************************************************)
\* seconds of live usage of u recorded today by settled events
SettledSeconds(u) ==
  SumOver(SettledCalls(u), [i \in SettledCalls(u) |-> calls[i].durationSeconds])

\* what has been taken from u's balance since it was seeded
Deducted(u) == seeded[u] - Balance(userCredits, u)

\* what settling u's events one after the other takes, for one period: the
\* part of the final usage above the limit (nothing was used before)
SettledInTurn(u) ==
  Max(0, SettledSeconds(u) - TIER_LIMITS["FREE"]["live_translation"].daily)

RecordFails(h) ==
  /\ hooks.proc[h].pc = "insert"
  /\ hooks' = Answer(h, 500, "failed")
  /\ UNCHANGED <<userCredits, creditPurchases>>
  /\ HookFrame

\* the balance upsert throws: the purchase row of the statement before it
\* stays, there is no transaction to roll it back
CreditFails(h) ==
  /\ hooks.proc[h].pc = "credit"
  /\ hooks' = Answer(h, 500, "failed")
  /\ UNCHANGED <<userCredits, creditPurchases>>
  /\ HookFrame

FaultNext ==
  \/ HookNext
  \/ \E h \in ProcIds : RecordFails(h)
  \/ \E h \in ProcIds : CreditFails(h)

SpecHookFault == HookInit /\ [][FaultNext]_vars

\* the seconds of the purchases recorded for u
RecordedSeconds(u) ==
  LET mine == {t \in DOMAIN creditPurchases : creditPurchases[t].userId = u}
  IN SumOver(mine, [t \in mine |-> creditPurchases[t].amountSeconds])

\* C37: with no delivery in hand, also after a delivery that failed between
\* its two writes and was delivered again, the balance of a user is what it
\* started with plus the seconds of the purchases recorded for the user
\* (nothing is deducted here): no recorded purchase is left uncredited.
C37_RecordedPurchasesAreCredited ==
  HooksQuiet => \A u \in Users : Balance(userCredits, u) = seeded[u] + RecordedSeconds(u)

(***************************************************************************)
(* The routes the router puts behind withAuth whose handlers write usage:  *)
(* /translation/image, /translation/live and /translation/recognition.     *)
(***************************************************************************)
RecognitionOutcomes == {"recognized", "no_usage", "bad_request"}

\* handleRecognition and GeminiService.recognizeIntent: an upstream answer
\* with usageMetadata is logged (fire and forget) under the endpoint
\* 'intent_recognition'
HandleRecognition(outcome) ==
  /\ adm.phase = "checked"
  /\ Admitted(adm.response)
  /\ adm.path = <<"translation", "recognition">>
  /\ ~InFlight(procs[1])
  /\ UNCHANGED <<ledgerVars, entitlements, gate, relayVars, hookVars>>
  /\ IF adm.userId = Undefined
       THEN /\ adm' = Handled([status |-> 401], FALSE)
            /\ adm.failures < MaxFailures
            /\ UNCHANGED <<procs, histVars>>
     ELSE IF outcome = "recognized"
       THEN /\ Len(calls) < MaxRouteCalls
            /\ adm' = Handled([status |-> 200], TRUE)
            /\ \E t \in TokenCounts :
                 logUsage(1, adm.userId, "intent_recognition", t, t, 0, NoTier, "request")
            /\ UNCHANGED seeded
     ELSE /\ adm.failures < MaxFailures
          /\ adm' = Handled([status |-> IF outcome = "bad_request" THEN 400 ELSE 500], FALSE)
          /\ UNCHANGED <<procs, histVars>>

RoutePaths ==
  {<<"translation", "image">>, <<"translation", "live">>, <<"translation", "recognition">>}

RoutesInit ==
  /\ today = 0
  /\ usageLogs = {}
  /\ userUsageStats = EmptyFcn
  /\ userCredits = EmptyFcn
  /\ creditPurchases = EmptyFcn
  /\ procs = [p \in ProcIds |-> IdleProc]
  /\ calls = <<>>
  /\ overlap = FALSE
  /\ clock = 0
  /\ sess = [s \in ProcIds |-> NoSession]
  /\ wire = NoWire
  /\ hooks = NoDeliveries
  /\ delivered = <<>>
  /\ entitlements \in EntitlementSetups
  /\ \E path \in RoutePaths :
       adm = [phase |-> "start", path |-> path, response |-> NoResponse, auth |-> "",
              userId |-> Undefined, membershipTier |-> Undefined, resourceType |-> Undefined,
              day |-> 0, tallyDay |-> 0, seq |-> 0, clean |-> TRUE,
              cleanBefore |-> TRUE, failures |-> 0,
              quoted |-> NoQuote, quotedBefore |-> NoQuote]
  /\ gate = NoGate
  /\ seeded = [u \in Users |-> Balance(userCredits, u)]

RoutesNext ==
  \/ \E auth \in AuthHeaders : Request(auth)
  \/ \E outcome \in ImageOutcomes : Len(calls) < MaxRouteCalls /\ HandleImage(outcome)
  \/ \E outcome \in LiveOutcomes, d \in SessionSeconds : HandleLive(outcome, d)
  \/ \E outcome \in RecognitionOutcomes : HandleRecognition(outcome)
  \/ LedgerStep(1)
  \/ NextDay

SpecRoutes == RoutesInit /\ [][RoutesNext]_vars

\* the requests of the caller that ended in a logUsage call
CompletedRequests == {i \in 1..Len(calls) : calls[i].origin = "request"}

\* C38: every usage event a handler writes for a completed request is
\* written under the resource type withAuth measures for the route, and once
\* the writes of the completed requests are done the usage withAuth reads
\* for the route is above zero.
C38_RecordedUnderCheckedType ==
  /\ \A i \in CompletedRequests : calls[i].endpoint = getResourceTypeFromUrl(adm.path)
  /\ (Quiescent /\ CompletedRequests # {}) =>
       \A i \in CompletedRequests :
         Figures(calls[i].userId, getResourceTypeFromUrl(adm.path)).total > 0

(***************************************************************************)
(* Transfers away from a registered user.                                  *)
(***************************************************************************)
\* C39: after a TRANSFER of entitlement E is processed, E is active for the
\* destination and no user named in transferred_from, under the internal id
\* the billing identity maps to, holds an active row of E any more (the
\* destination not being one of the sources).
C39_TransferLeavesNoActiveSource ==
  (/\ Processed
   /\ LastEvent.type = "TRANSFER"
   /\ Len(LastEvent.entitlement_ids) = 1
   /\ LastEvent.app_user_id # Undefined
   /\ Len(LastEvent.transferred_from) > 0
   /\ \A j \in 1..Len(LastEvent.transferred_from) :
        TargetUserId(LastEvent.transferred_from[j]) # TargetUserId(LastEvent.app_user_id)) =>
    LET E == LastEvent.entitlement_ids[1]
        from == LastEvent.transferred_from
        destination == TargetUserId(LastEvent.app_user_id)
    IN /\ StatusOf(destination, E) = {"active"}
       /\ \A j \in 1..Len(from) :
            "active" \notin StatusOf(TargetUserId(from[j]), E)

(***************************************************************************)
(* The quota route at the gate.                                            *)
(***************************************************************************)
\* C40: withAuth never answers 429 to an authenticated request for
\* /user/quota, whatever the usage of the user: the request goes on to
\* handleGetQuota.
C40_QuotaAlwaysReadable ==
  (/\ adm.phase = "checked"
   /\ adm.path = <<"user", "quota">>
   /\ adm.userId # Undefined) => Admitted(adm.response)

====
